---- MODULE Spec2Model ----
(***************************************************************************)
(* Niya solver (andHW/ukiyoe): board utilities (src/src/utils.py), the     *)
(* minimax core and the solve orchestrator (src/src/solver.py), the        *)
(* result records (src/src/models.py) and the per-task row builder of the  *)
(* sampler (src/src/main.py).                                              *)
(*                                                                         *)
(* The source fixes the grid at 4x4 (range(4), range(16), depth == 16).    *)
(* Every definition below is written for a grid of Side x Side cells and   *)
(* is the source's definition when Side = 4; the model is checked on the   *)
(* Side = 3 game, whose trees are small enough to be explored completely.  *)
(* (At Side = 4 the ranks of the boards, up to 16! - 1, exceed 32-bit      *)
(* integers, and a solve fills a table of several hundred thousand         *)
(* positions.)                                                             *)
(*                                                                         *)
(* Representation: a Python list/tuple is a sequence (cell i of a board is *)
(* board[i + 1]); a placement bitmask is the set of cells whose bit is     *)
(* set, so  mask | (1 << i)  is  mask \cup {i}  and  (m & w) == w  is      *)
(* w \subseteq m; the transposition table (a dict) is a function.          *)
(***************************************************************************)
EXTENDS Integers, Sequences, FiniteSets, TLC

Side == 3

NumCells == Side * Side

Cells == 0 .. (NumCells - 1)

Labels == 0 .. (Side - 1)

\* Python's None, as a value that can be compared with a list
None == <<"None">>

(***************************************************************************)
(* main.py / debug_board.py: the tile pool, in sorted order.               *)
(***************************************************************************)
TILES == [k \in 1 .. NumCells |-> <<(k - 1) \div Side, (k - 1) % Side>>]

RECURSIVE factorial(_)
factorial(n) == IF n <= 1 THEN 1 ELSE n * factorial(n - 1)

\* the outcome of a call that raises IndexError
IndexError == <<"IndexError">>

\* the position a Python index k denotes in a list of that length (a
\* negative index counts from the end), 0-based; it is valid iff the
\* position lies in 0 .. len - 1
PyIndex(list, k) == IF k < 0 THEN k + Len(list) ELSE k

PyIndexValid(list, k) == PyIndex(list, k) \in 0 .. (Len(list) - 1)

\* list.pop(k) for a valid k: the list without that element
Pop(list, k) ==
    [j \in 1 .. (Len(list) - 1) |-> IF j <= PyIndex(list, k) THEN list[j] ELSE list[j + 1]]

\* the loop of get_permutation:  for x in range(n, 0, -1); pool.pop(k) raises
\* IndexError when k is out of range
RECURSIVE get_permutation_loop(_, _, _, _, _)
get_permutation_loop(pool, index, fact, x, result) ==
    IF x = 0
    THEN result
    ELSE LET fact2 == fact \div x
             k     == index \div fact2
         IN  IF ~PyIndexValid(pool, k)
             THEN IndexError
             ELSE get_permutation_loop(Pop(pool, k), index % fact2, fact2, x - 1,
                                       Append(result, pool[PyIndex(pool, k) + 1]))

get_permutation(pool, index) ==
    LET n == Len(pool)
    IN  IF index >= factorial(n)
        THEN None
        ELSE get_permutation_loop(pool, index, factorial(n), n, <<>>)

(***************************************************************************)
(* solver.py: outcome indices, scores, sentinels, win patterns, openings.  *)
(***************************************************************************)
_OUT_ROW == 0
_OUT_COL == 1
_OUT_MAIN_DIAG == 2
_OUT_ANTI_DIAG == 3
_OUT_SQUARE == 4
\* variant: a blockade is reported under the index of Square
_OUT_BLOCKADE_AsSquare == _OUT_SQUARE
_OUT_BLOCKADE == 5
_OUT_DRAW == 6

OUTCOME_TABLE ==
    <<"Row", "Column", "Main Diagonal", "Anti-Diagonal", "Square", "Blockade", "Draw">>

P1_WINS == 1
P1_LOSES == -1
DRAW_SCORE == 0
\* variant: the high sentinel coincides with the score of a win
_INF_IsWinScore == P1_WINS
_INF == 2
\* variant: the low sentinel coincides with the score of a loss
_NEG_INF_IsLossScore == P1_LOSES
_NEG_INF == -2

_row_mask(i) == {i * Side + j : j \in Labels}
_col_mask(i) == {j * Side + i : j \in Labels}
_diag1 == {i * Side + i : i \in Labels}
_diag2 == {i * Side + (Side - 1 - i) : i \in Labels}
\* variant: the fourth cell of the square is one column too far
_square_Skewed(idx) == {idx, idx + 1, idx + Side, idx + Side + 2}
_square(idx) == {idx, idx + 1, idx + Side, idx + Side + 1}

\* rows and columns are appended alternately (row i, column i), then the two
\* diagonals, then the 2x2 squares by top-left corner in row-major order
WIN_MASKS ==
    [k \in 1 .. (2 * Side) |->
        IF k % 2 = 1 THEN <<_row_mask((k - 1) \div 2), _OUT_ROW>>
                     ELSE <<_col_mask((k - 2) \div 2), _OUT_COL>>]
    \o << <<_diag1, _OUT_MAIN_DIAG>>, <<_diag2, _OUT_ANTI_DIAG>> >>
    \o [k \in 1 .. ((Side - 1) * (Side - 1)) |->
        <<_square(((k - 1) \div (Side - 1)) * Side + ((k - 1) % (Side - 1))), _OUT_SQUARE>>]

\* the non-interior cells, ascending
RECURSIVE AscendingSeq(_)
AscendingSeq(S) ==
    IF S = {} THEN <<>>
    ELSE LET m == CHOOSE x \in S : \A y \in S : x <= y
         IN  <<m>> \o AscendingSeq(S \ {m})

OPENING_INDICES ==
    AscendingSeq({i \in Cells : \/ i \div Side \in {0, Side - 1}
                                \/ i % Side \in {0, Side - 1}})

\* first matching pattern of WIN_MASKS, or -1
RECURSIVE _check_win_from(_, _)
_check_win_from(mask, k) ==
    IF k > Len(WIN_MASKS) THEN -1
    ELSE IF WIN_MASKS[k][1] \subseteq mask THEN WIN_MASKS[k][2]
    ELSE _check_win_from(mask, k + 1)

\* variant: the patterns of a mask of more than half of the cells (the mask
\* of the player who filled the board) are not looked at
_check_win_outcome_BlindWhenFull(mask) ==
    IF 2 * Cardinality(mask) > NumCells THEN -1 ELSE _check_win_from(mask, 1)

_check_win_outcome(mask) == _check_win_from(mask, 1)

\* variant of the inlined generator: occupied cells are not left out
InlineMoves_IgnoresTaken(board, taken_mask, last_move_idx) ==
    LET last_tile == board[last_move_idx + 1]
    IN  AscendingSeq({i \in Cells :
            \/ board[i + 1][1] = last_tile[1]
            \/ board[i + 1][2] = last_tile[2]})

\* the inlined move generator of minimax (lines 236-248): empty cells whose
\* tile shares the plant or the poem of the last tile, ascending
InlineMoves(board, taken_mask, last_move_idx) ==
    LET last_tile == board[last_move_idx + 1]
    IN  AscendingSeq({i \in Cells :
            /\ i \notin taken_mask
            /\ \/ board[i + 1][1] = last_tile[1]
               \/ board[i + 1][2] = last_tile[2]})

\* variant of the compatibility test: plant and poem must both coincide
Compatible_Both(curr, last_tile) == curr[1] = last_tile[1] /\ curr[2] = last_tile[2]

\* "curr[0] == target_plant or curr[1] == target_poem" (solver.py 183)
Compatible(curr, last_tile) == curr[1] = last_tile[1] \/ curr[2] = last_tile[2]

\* the loop "for i in range(16)" of get_legal_moves (solver.py 180-184),
\* from cell i on, with the moves appended so far
RECURSIVE get_legal_moves_loop(_, _, _, _, _)
get_legal_moves_loop(board, taken_mask, last_tile, i, moves) ==
    IF i >= NumCells THEN moves
    ELSE get_legal_moves_loop(board, taken_mask, last_tile, i + 1,
             IF i \notin taken_mask /\ Compatible(board[i + 1], last_tile)
             THEN Append(moves, i)
             ELSE moves)

\* get_legal_moves (solver.py 163-186).  The optional last_move_idx is the
\* empty tuple for None and <<i>> for the cell i.
get_legal_moves(board, taken_mask, last_move_idx) ==
    IF last_move_idx = <<>>
    THEN OPENING_INDICES \o <<>>
    ELSE get_legal_moves_loop(board, taken_mask, board[last_move_idx[1] + 1], 0, <<>>)

\* cache[cache_key] = result
CachePut(cache, cache_key, result) == (cache_key :> result) @@ cache

(***************************************************************************)
(* minimax (solver.py 193-305).  Returns [res |-> <<score, outcome index,  *)
(* depth>>, cache |-> the table after the call].                           *)
(***************************************************************************)
RECURSIVE minimax(_, _, _, _, _, _, _, _, _)
RECURSIVE MaxLoop(_, _, _, _, _, _, _, _, _, _)
RECURSIVE MinLoop(_, _, _, _, _, _, _, _, _, _)

\* variant: the score and the depth are replaced, the outcome index is not
KeepMax_StaleOutcome(best, res) ==
    IF res[1] > best[1] THEN <<res[1], best[2], res[3]>> ELSE best

\* lines 270-273:  if s > best_score: best_score, best_out, best_d = s, o, d
KeepMax(best, res) == IF res[1] > best[1] THEN res ELSE best

\* variant: the minimizing player replaces the score and the outcome index,
\* not the depth
KeepMin_StaleDepth(best, res) ==
    IF res[1] < best[1] THEN <<res[1], res[2], best[3]>> ELSE best

\* variant: the minimizing player never replaces the initial triple
KeepMin_Never(best, res) == best

\* lines 293-296:  if s < best_score: best_score, best_out, best_d = s, o, d
KeepMin(best, res) == IF res[1] < best[1] THEN res ELSE best

\* for move in moves (P1 to move), from position j of the list
MaxLoop(board, p1_mask, p2_mask, moves, j, alpha, beta, next_depth, best, cache) ==
    IF j > Len(moves)
    THEN [res |-> best, cache |-> cache]
    ELSE LET move   == moves[j]
             r      == minimax(board, p1_mask \cup {move}, p2_mask, move, FALSE,
                               alpha, beta, next_depth, cache)
             s      == r.res[1]
             best2  == KeepMax(best, r.res)
             alpha2 == IF s > alpha THEN s ELSE alpha
         IN  IF beta <= alpha2
             THEN [res |-> best2, cache |-> r.cache]
             ELSE MaxLoop(board, p1_mask, p2_mask, moves, j + 1, alpha2, beta,
                          next_depth, best2, r.cache)

\* for move in moves (P2 to move), from position j of the list
MinLoop(board, p1_mask, p2_mask, moves, j, alpha, beta, next_depth, best, cache) ==
    IF j > Len(moves)
    THEN [res |-> best, cache |-> cache]
    ELSE LET move  == moves[j]
             r     == minimax(board, p1_mask, p2_mask \cup {move}, move, TRUE,
                              alpha, beta, next_depth, cache)
             s     == r.res[1]
             best2 == KeepMin(best, r.res)
             beta2 == IF s < beta THEN s ELSE beta
         IN  IF beta2 <= alpha
             THEN [res |-> best2, cache |-> r.cache]
             ELSE MinLoop(board, p1_mask, p2_mask, moves, j + 1, alpha, beta2,
                          next_depth, best2, r.cache)

minimax(board, p1_mask, p2_mask, last_move_idx, is_p1_turn, alpha, beta, depth, cache) ==
    LET cache_key == <<p1_mask, p2_mask, last_move_idx, is_p1_turn>>
    IN  IF cache_key \in DOMAIN cache
        THEN [res |-> cache[cache_key], cache |-> cache]
        ELSE
        LET prev_mask == IF is_p1_turn THEN p2_mask ELSE p1_mask
            out_idx   == _check_win_outcome(prev_mask)
            score     == IF is_p1_turn THEN P1_LOSES ELSE P1_WINS
        IN  IF out_idx >= 0
            THEN [res   |-> <<score, out_idx, depth>>,
                  cache |-> CachePut(cache, cache_key, <<score, out_idx, depth>>)]
            ELSE IF depth = NumCells
            THEN [res   |-> <<DRAW_SCORE, _OUT_DRAW, NumCells>>,
                  cache |-> CachePut(cache, cache_key, <<DRAW_SCORE, _OUT_DRAW, NumCells>>)]
            ELSE
            LET moves == InlineMoves(board, p1_mask \cup p2_mask, last_move_idx)
            IN  IF moves = <<>>
                THEN [res   |-> <<score, _OUT_BLOCKADE, depth>>,
                      cache |-> CachePut(cache, cache_key, <<score, _OUT_BLOCKADE, depth>>)]
                ELSE
                LET r == IF is_p1_turn
                         THEN MaxLoop(board, p1_mask, p2_mask, moves, 1, alpha, beta,
                                      depth + 1, <<_NEG_INF, _OUT_DRAW, NumCells>>, cache)
                         ELSE MinLoop(board, p1_mask, p2_mask, moves, 1, alpha, beta,
                                      depth + 1, <<_INF, _OUT_DRAW, NumCells>>, cache)
                IN  [res |-> r.res, cache |-> CachePut(r.cache, cache_key, r.res)]

(***************************************************************************)
(* utils.py: spatial transforms, label permutations, canonicalization and  *)
(* the permutation rank.                                                   *)
(***************************************************************************)
\* a grid is a sequence of Side rows, each a sequence of Side values
Reversed(list) == [j \in 1 .. Len(list) |-> list[Len(list) + 1 - j]]

\* zip(*grid): the columns of the grid, as rows
Zip(grid) == [i \in 1 .. Side |-> [j \in 1 .. Len(grid) |-> grid[j][i]]]

\* flat(r): the rows concatenated
flat(grid) == [k \in 1 .. NumCells |-> grid[((k - 1) \div Side) + 1][((k - 1) % Side) + 1]]

get_transforms ==
    LET base   == [k \in 1 .. NumCells |-> k - 1]
        rows   == [i \in 1 .. Side |-> [j \in 1 .. Side |-> base[(i - 1) * Side + j]]]
        r0     == rows
        r90    == [i \in 1 .. Side |-> Reversed(Zip(r0)[i])]
        r180   == [i \in 1 .. Side |-> Reversed(Zip(r90)[i])]
        r270   == [i \in 1 .. Side |-> Reversed(Zip(r180)[i])]
        h_ref  == Reversed(r0)
        v_ref  == [i \in 1 .. Side |-> Reversed(r0[i])]
        d1_ref == Zip(r0)
        d2_ref == [i \in 1 .. Side |-> Reversed(Zip(Reversed(r0))[i])]
    IN  <<flat(r0), flat(r90), flat(r180), flat(r270),
          flat(h_ref), flat(v_ref), flat(d1_ref), flat(d2_ref)>>

TRANSFORM_MAPS == get_transforms

\* itertools.permutations(range(Side)): every permutation, in lexicographic order
_LABEL_PERMS ==
    LET pool == [k \in 1 .. Side |-> k - 1]
    IN  [r \in 1 .. factorial(Side) |-> get_permutation(pool, r - 1)]

\* Python's order on tiles and on tuples of tiles
TileLess(t, u) == t[1] < u[1] \/ (t[1] = u[1] /\ t[2] < u[2])

RECURSIVE LexLessFrom(_, _, _)
LexLessFrom(a, b, k) ==
    IF k > Len(a) \/ k > Len(b) THEN Len(a) < Len(b)
    ELSE IF a[k] = b[k] THEN LexLessFrom(a, b, k + 1)
    ELSE TileLess(a[k], b[k])

LexLess(a, b) == LexLessFrom(a, b, 1)

\* tuple(...): the sequence itself, its elements evaluated
tuple(list) == list \o <<>>

\* tuple(bt[mapping[i]] for i in range(16))
ApplyMap(bt, mapping) == tuple([k \in 1 .. NumCells |-> bt[mapping[k] + 1]])

\* variant: an image equal to the board also disqualifies it (<= for <)
is_canonical_NotStrict(board_tuple) ==
    \A m \in 1 .. Len(TRANSFORM_MAPS) :
        /\ ~LexLess(ApplyMap(board_tuple, TRANSFORM_MAPS[m]), board_tuple)
        /\ ApplyMap(board_tuple, TRANSFORM_MAPS[m]) # board_tuple

\* is_canonical: no image under TRANSFORM_MAPS is strictly smaller
is_canonical(board_tuple) ==
    \A m \in 1 .. Len(TRANSFORM_MAPS) :
        ~LexLess(ApplyMap(board_tuple, TRANSFORM_MAPS[m]), board_tuple)

\* the two candidates of one (mapping, pp, sp) iteration, lines 125-130
Relabel(spatial, pp, sp) == [k \in 1 .. NumCells |->
    <<pp[spatial[k][1] + 1], sp[spatial[k][2] + 1]>>]

RelabelSwapped(spatial, pp, sp) == [k \in 1 .. NumCells |->
    <<pp[spatial[k][2] + 1], sp[spatial[k][1] + 1]>>]

\* for sp in _LABEL_PERMS, from position q:  if c < best: best = c  (twice)
RECURSIVE SpLoop(_, _, _, _)
SpLoop(spatial, pp, q, best) ==
    IF q > Len(_LABEL_PERMS)
    THEN best
    ELSE LET sp == _LABEL_PERMS[q]
             c1 == Relabel(spatial, pp, sp)
             c2 == RelabelSwapped(spatial, pp, sp)
         IN  IF LexLess(c1, best)
             THEN IF LexLess(c2, c1) THEN SpLoop(spatial, pp, q + 1, c2)
                                     ELSE SpLoop(spatial, pp, q + 1, c1)
             ELSE IF LexLess(c2, best) THEN SpLoop(spatial, pp, q + 1, c2)
                                       ELSE SpLoop(spatial, pp, q + 1, best)

\* for pp in _LABEL_PERMS, from position p (b is the value of best after the
\* inner loop; the test on it only orders the evaluation)
RECURSIVE PpLoop(_, _, _)
PpLoop(spatial, p, best) ==
    IF p > Len(_LABEL_PERMS)
    THEN best
    ELSE LET b == SpLoop(spatial, _LABEL_PERMS[p], 1, best)
         IN  IF b = best THEN PpLoop(spatial, p + 1, best)
                         ELSE PpLoop(spatial, p + 1, b)

\* for mapping in TRANSFORM_MAPS, from position m
RECURSIVE MapLoop(_, _, _)
MapLoop(bt, m, best) ==
    IF m > Len(TRANSFORM_MAPS)
    THEN best
    ELSE LET b == PpLoop(ApplyMap(bt, TRANSFORM_MAPS[m]), 1, best)
         IN  IF b = best THEN MapLoop(bt, m + 1, best)
                         ELSE MapLoop(bt, m + 1, b)

canonicalize_board(board) == tuple(MapLoop(tuple(board), 1, tuple(board)))

\* available.index(tile), 0-based
RECURSIVE IndexOf(_, _, _)
IndexOf(list, x, k) == IF list[k + 1] = x THEN k ELSE IndexOf(list, x, k + 1)

RECURSIVE board_to_perm_index_loop(_, _, _, _)
\* variant: the weight of position i is (n - i)! instead of (n - 1 - i)!
board_to_perm_index_loop_WeightOff(board, i, available, index) ==
    IF i >= Len(board)
    THEN index
    ELSE LET k == IndexOf(available, board[i + 1], 0)
         IN  board_to_perm_index_loop(board, i + 1, Pop(available, k),
                 index + k * factorial(NumCells - i))

board_to_perm_index_loop(board, i, available, index) ==
    IF i >= Len(board)
    THEN index
    ELSE LET k == IndexOf(available, board[i + 1], 0)
         IN  board_to_perm_index_loop(board, i + 1, Pop(available, k),
                 index + k * factorial(NumCells - 1 - i))

\* variant: ranks counted from 1
board_to_perm_index_OneBased(board) == board_to_perm_index_loop(board, 0, TILES, 1)

board_to_perm_index(board) == board_to_perm_index_loop(board, 0, TILES, 0)

(***************************************************************************)
(* models.py: classify_position and the result records.                    *)
(***************************************************************************)
CORNER_INDICES == {0, Side - 1, NumCells - Side, NumCells - 1}

classify_position(idx) == IF idx \in CORNER_INDICES THEN "corner" ELSE "edge"

P2Response(p1_move, p2_best_move, is_p1_win, outcome) ==
    [p1_move |-> p1_move, p2_best_move |-> p2_best_move,
     is_p1_win |-> is_p1_win, outcome |-> outcome]

(***************************************************************************)
(* solver.py, _analyze_p2_responses: the body of one iteration of          *)
(* "for p1_move in OPENING_INDICES" (lines 638-670).                       *)
(***************************************************************************)
\* variant: a reply is kept only when it beats a draw, as if best_p2_score
\* started at DRAW_SCORE
KeepReply_FromDraw(best, i, res) ==
    IF res[1] < best.score /\ res[1] < DRAW_SCORE
    THEN [score |-> res[1], move |-> i, out |-> res[2]]
    ELSE best

\* lines 659-662:  if s < best_p2_score: keep (score, move, outcome)
KeepReply(best, i, res) ==
    IF res[1] < best.score THEN [score |-> res[1], move |-> i, out |-> res[2]] ELSE best

\* variant: the replies are searched with the depth of the opening
ReplySearch_DepthOfOpening(board, p1_move, i, cache) ==
    minimax(board, {p1_move}, {i}, i, TRUE, _NEG_INF, _INF, 1, cache)

\* the call of line 655: the position after opening p1_move and reply i
ReplySearch(board, p1_move, i, cache) ==
    minimax(board, {p1_move}, {i}, i, TRUE, _NEG_INF, _INF, 2, cache)

\* for i in range(16), from cell i
RECURSIVE ReplyLoop(_, _, _, _, _)
ReplyLoop(board, p1_move, i, best, cache) ==
    IF i >= NumCells
    THEN [best |-> best, cache |-> cache]
    ELSE IF /\ i \notin {p1_move}
            /\ \/ board[i + 1][1] = board[p1_move + 1][1]
               \/ board[i + 1][2] = board[p1_move + 1][2]
         THEN LET r == ReplySearch(board, p1_move, i, cache)
              IN  ReplyLoop(board, p1_move, i + 1, KeepReply(best, i, r.res), r.cache)
         ELSE ReplyLoop(board, p1_move, i + 1, best, cache)

\* variant: the score is read from Player 2's side
ReplyIsP1Win_P2Side(best_p2_score) == best_p2_score = P1_LOSES

\* variant: every opening Player 1 does not lose is reported as won
ReplyIsP1Win_NotLost(best_p2_score) == best_p2_score >= DRAW_SCORE

\* line 664
ReplyIsP1Win(best_p2_score) == best_p2_score = P1_WINS

AnalyzeOpening(board, p1_move, cache) ==
    LET a == ReplyLoop(board, p1_move, 0,
                       [score |-> _INF, move |-> -1, out |-> _OUT_DRAW], cache)
    IN  [resp  |-> P2Response(p1_move, a.best.move, ReplyIsP1Win(a.best.score),
                              OUTCOME_TABLE[a.best.out + 1]),
         score |-> a.best.score,
         cache |-> a.cache]

(***************************************************************************)
(* solver.py, _solve_board_python: the tallies and the record (534-560).   *)
(***************************************************************************)
\* line 545:  sum(1 for r in p2_responses if r.is_p1_win)
P1WinsCount(p2_responses) ==
    Cardinality({k \in 1 .. Len(p2_responses) : p2_responses[k].is_p1_win})
\* line 546:  sum(1 for r in p2_responses if r.outcome == Outcome.DRAW)
DrawsCount(p2_responses) ==
    Cardinality({k \in 1 .. Len(p2_responses) : p2_responses[k].outcome = "Draw"})
\* variant: the draws are not subtracted
P2WinsCount_DrawsKept(p2_responses) ==
    Len(p2_responses) - P1WinsCount(p2_responses)
\* line 547
P2WinsCount(p2_responses) ==
    Len(p2_responses) - P1WinsCount(p2_responses) - DrawsCount(p2_responses)

SolveResult(best_score, best_move, best_out_idx, best_depth, skip_p2, p2_responses) ==
    [is_p1_win          |-> best_score = P1_WINS,
     is_draw            |-> best_score = DRAW_SCORE,
     best_move          |-> best_move,
     outcome            |-> OUTCOME_TABLE[best_out_idx + 1],
     game_depth         |-> best_depth,
     best_move_position |-> classify_position(best_move),
     p1_wins_count      |-> IF skip_p2 THEN 0 ELSE P1WinsCount(p2_responses),
     p2_wins_count      |-> IF skip_p2 THEN 0 ELSE P2WinsCount(p2_responses),
     draws_count        |-> IF skip_p2 THEN 0 ELSE DrawsCount(p2_responses),
     p2_responses       |-> p2_responses]

(***************************************************************************)
(* main.py, solve_one: the rows handed back by a task (lines 58-85).       *)
(***************************************************************************)
\* variant: the flag is not consulted, only that the list exists
HasP2_ListExists(skip_p2, result) == Len(result.p2_responses) >= 0

\* line 58
HasP2(skip_p2, result) == ~skip_p2 /\ Len(result.p2_responses) > 0

SolutionRow(perm_index, result, has_p2) ==
    <<perm_index, result.is_p1_win, result.is_draw, result.best_move, result.outcome,
      result.best_move_position, result.game_depth, result.p1_wins_count,
      result.p2_wins_count, result.draws_count, has_p2>>

P2Rows(perm_index, result, has_p2) ==
    IF has_p2
    THEN [k \in 1 .. Len(result.p2_responses) |->
            <<perm_index, result.p2_responses[k].p1_move,
              result.p2_responses[k].p2_best_move,
              result.p2_responses[k].is_p1_win, result.p2_responses[k].outcome>>]
    ELSE <<>>

solve_one_rows(perm_index, skip_p2, result) ==
    LET has_p2 == HasP2(skip_p2, result)
    IN  [solution_row |-> <<SolutionRow(perm_index, result, has_p2)>>,
         p2_rows      |-> P2Rows(perm_index, result, has_p2)]

(***************************************************************************)
(* The whole task as a function of its draw and its flag, for the parent   *)
(* process of the sampler, which sees a task only through its result.  A   *)
(* value computed by a search is bound once, as the element of a           *)
(* one-element set.                                                        *)
(***************************************************************************)
\* solver.py 521-532: one iteration of  for move in OPENING_INDICES
Phase1Iter(board, k, st, cache) ==
    CHOOSE n \in
        {LET move   == OPENING_INDICES[k]
             s      == r.res[1]
             alpha2 == IF s > st.alpha THEN s ELSE st.alpha
         IN  [st    |-> IF s > st.best_score
                        THEN [alpha |-> alpha2, best_move |-> move, best_score |-> s,
                              best_out_idx |-> r.res[2], best_depth |-> r.res[3]]
                        ELSE [st EXCEPT !.alpha = alpha2],
              cache |-> r.cache]
         : r \in {minimax(board, {OPENING_INDICES[k]}, {}, OPENING_INDICES[k], FALSE,
                          st.alpha, _INF, 1, cache)}} : TRUE

\* solver.py 520-532:  for move in OPENING_INDICES  from position k on
RECURSIVE Phase1Loop(_, _, _, _)
Phase1Loop(board, k, st, cache) ==
    CHOOSE out \in
        {IF _INF <= n.st.alpha \/ k = Len(OPENING_INDICES)
         THEN n
         ELSE Phase1Loop(board, k + 1, n.st, n.cache)
         : n \in {Phase1Iter(board, k, st, cache)}} : TRUE

\* solver.py 637-670:  for p1_move in OPENING_INDICES  from position k on
RECURSIVE Phase2Loop(_, _, _, _)
Phase2Loop(board, k, responses, cache) ==
    CHOOSE out \in
        {IF k = Len(OPENING_INDICES)
         THEN Append(responses, a.resp)
         ELSE Phase2Loop(board, k + 1, Append(responses, a.resp), a.cache)
         : a \in {AnalyzeOpening(board, OPENING_INDICES[k], cache)}} : TRUE

\* solver.py 511-560
_solve_board_python(board, skip_p2) ==
    CHOOSE result \in
        {SolveResult(p1.st.best_score, p1.st.best_move, p1.st.best_out_idx,
                     p1.st.best_depth, skip_p2,
                     IF skip_p2 THEN <<>> ELSE Phase2Loop(board, 1, <<>>, p1.cache))
         : p1 \in {Phase1Loop(board, 1,
                              [alpha |-> _NEG_INF, best_move |-> -1,
                               best_score |-> _NEG_INF, best_out_idx |-> _OUT_DRAW,
                               best_depth |-> NumCells], <<>>)}} : TRUE

\* main.py 53-85: solve the representative, build the rows
solve_one_canonical(canonical, skip_p2) ==
    CHOOSE pair \in
        {LET r == solve_one_rows(board_to_perm_index(canonical), skip_p2, result)
         IN  <<r.solution_row, r.p2_rows \o <<>>>>
         : result \in {_solve_board_python(canonical, skip_p2)}} : TRUE

\* main.py 43-85: the pair (solution rows, reply rows) of the task that drew
\* "shuffled"
solve_one(shuffled, skip_p2) ==
    CHOOSE pair \in
        {solve_one_canonical(canonical, skip_p2)
         : canonical \in {canonicalize_board(shuffled)}} : TRUE

(***************************************************************************)
(* main.py, main: what the parent does with the result of one task         *)
(* (lines 165-170).                                                        *)
(***************************************************************************)
\* line 167
AccumulateSolutions(batch_solutions, sol_rows) == batch_solutions \o sol_rows

\* variant: the reply rows of the task are left behind
AccumulateP2_Dropped(batch_p2, p2_rows) == batch_p2

\* line 168
AccumulateP2(batch_p2, p2_rows) == batch_p2 \o p2_rows

(***************************************************************************)
(* database.py: a table is the set of its rows.  The key of a solutions    *)
(* row is perm_index (lines 22-36), the key of a p2_responses row is       *)
(* (perm_index, p1_move) (lines 38-48).                                    *)
(***************************************************************************)
SolutionsKey(row) == row[1]
P2ResponsesKey(row) == <<row[1], row[2]>>

\* init_db on a fresh file
EmptyStore == [solutions |-> {}, p2_responses |-> {}]

\* variant: a row replaces the stored row of the same key
InsertSolutions_Replaces(table, rows) ==
    {row \in table : \A k \in DOMAIN rows : SolutionsKey(rows[k]) # SolutionsKey(row)}
        \cup {rows[k] : k \in {k \in DOMAIN rows :
                 \A j \in (k + 1) .. Len(rows) :
                     SolutionsKey(rows[j]) # SolutionsKey(rows[k])}}

\* lines 79-82:  executemany INSERT OR IGNORE INTO solutions
InsertSolutions(table, rows) ==
    table \cup {rows[k] : k \in {k \in DOMAIN rows :
                 /\ \A row \in table : SolutionsKey(row) # SolutionsKey(rows[k])
                 /\ \A j \in 1 .. (k - 1) :
                        SolutionsKey(rows[j]) # SolutionsKey(rows[k])}}

\* lines 84-87:  executemany INSERT OR IGNORE INTO p2_responses
InsertP2Responses(table, rows) ==
    table \cup {rows[k] : k \in {k \in DOMAIN rows :
                 /\ \A row \in table : P2ResponsesKey(row) # P2ResponsesKey(rows[k])
                 /\ \A j \in 1 .. (k - 1) :
                        P2ResponsesKey(rows[j]) # P2ResponsesKey(rows[k])}}

\* save_batch as a whole (lines 76-90), on a committed store
save_batch(store, solutions, p2_responses) ==
    [solutions    |-> InsertSolutions(store.solutions, solutions),
     p2_responses |-> IF p2_responses # <<>>
                      THEN InsertP2Responses(store.p2_responses, p2_responses)
                      ELSE store.p2_responses]

(***************************************************************************)
(* solver.py: the debug path (minimax_debug 312-422, _solve_board_debug    *)
(* 563-624, _analyze_p2_responses_debug 675-710), which keeps Outcome      *)
(* values instead of outcome indices, and the entry point solve_board      *)
(* (429-455).                                                              *)
(***************************************************************************)
\* float("inf"): above every integer it is compared with (the scores and the
\* bounds of the window lie in -2 .. 2)
float_inf == 1000

\* check_win (152-160): the Outcome of the first matching pattern, or None.
\* The optional Outcome is the empty tuple for None and <<outcome>> otherwise.
check_win(mask) ==
    IF _check_win_outcome(mask) >= 0
    THEN <<OUTCOME_TABLE[_check_win_outcome(mask) + 1]>>
    ELSE <<>>

\* variant: the minimizing player of the debug path keeps the last reply
\* that is not worse, not the first
DebugKeepMin_LastBest(best, res) == IF res[1] <= best[1] THEN res ELSE best

\* lines 408-411:  if score < min_eval: min_eval, best_outcome, best_depth = ...
DebugKeepMin(best, res) == IF res[1] < best[1] THEN res ELSE best

\* lines 385-388:  if score > max_eval: max_eval, best_outcome, best_depth = ...
DebugKeepMax(best, res) == IF res[1] > best[1] THEN res ELSE best

RECURSIVE minimax_debug(_, _, _, _, _, _, _, _, _)
RECURSIVE DebugMaxLoop(_, _, _, _, _, _, _, _, _, _)
RECURSIVE DebugMinLoop(_, _, _, _, _, _, _, _, _, _)

\* lines 379-392:  for move in moves (P1 to move), from position j of the list
DebugMaxLoop(board, p1_mask, p2_mask, moves, j, alpha, beta, depth, best, cache) ==
    IF j > Len(moves)
    THEN [res |-> best, cache |-> cache]
    ELSE LET move   == moves[j]
             r      == minimax_debug(board, p1_mask \cup {move}, p2_mask, move, FALSE,
                                     alpha, beta, depth + 1, cache)
             score  == r.res[1]
             best2  == DebugKeepMax(best, r.res)
             alpha2 == IF alpha >= score THEN alpha ELSE score
         IN  IF beta <= alpha2
             THEN [res |-> best2, cache |-> r.cache]
             ELSE DebugMaxLoop(board, p1_mask, p2_mask, moves, j + 1, alpha2, beta,
                               depth, best2, r.cache)

\* lines 402-415:  for move in moves (P2 to move), from position j of the list
DebugMinLoop(board, p1_mask, p2_mask, moves, j, alpha, beta, depth, best, cache) ==
    IF j > Len(moves)
    THEN [res |-> best, cache |-> cache]
    ELSE LET move  == moves[j]
             r     == minimax_debug(board, p1_mask, p2_mask \cup {move}, move, TRUE,
                                    alpha, beta, depth + 1, cache)
             score == r.res[1]
             best2 == DebugKeepMin(best, r.res)
             beta2 == IF beta <= score THEN beta ELSE score
         IN  IF beta2 <= alpha
             THEN [res |-> best2, cache |-> r.cache]
             ELSE DebugMinLoop(board, p1_mask, p2_mask, moves, j + 1, alpha, beta2,
                               depth, best2, r.cache)

\* minimax_debug (312-422): the triple holds an Outcome, not an index
minimax_debug(board, p1_mask, p2_mask, last_move_idx, is_p1_turn, alpha, beta, depth, cache) ==
    LET cache_key == <<p1_mask, p2_mask, last_move_idx, is_p1_turn>>
    IN  IF cache_key \in DOMAIN cache
        THEN [res |-> cache[cache_key], cache |-> cache]
        ELSE
        LET previous_player_mask == IF is_p1_turn THEN p2_mask ELSE p1_mask
            win_outcome == check_win(previous_player_mask)
            score       == IF is_p1_turn THEN P1_LOSES ELSE P1_WINS
        IN  IF win_outcome # <<>>
            THEN [res   |-> <<score, win_outcome[1], depth>>,
                  cache |-> CachePut(cache, cache_key, <<score, win_outcome[1], depth>>)]
            ELSE IF depth = NumCells
            THEN [res   |-> <<DRAW_SCORE, "Draw", depth>>,
                  cache |-> CachePut(cache, cache_key, <<DRAW_SCORE, "Draw", depth>>)]
            ELSE
            LET moves == get_legal_moves(board, p1_mask \cup p2_mask, <<last_move_idx>>)
            IN  IF moves = <<>>
                THEN [res   |-> <<score, "Blockade", depth>>,
                      cache |-> CachePut(cache, cache_key, <<score, "Blockade", depth>>)]
                ELSE
                LET r == IF is_p1_turn
                         THEN DebugMaxLoop(board, p1_mask, p2_mask, moves, 1, alpha, beta,
                                           depth, <<-float_inf, "Draw", NumCells>>, cache)
                         ELSE DebugMinLoop(board, p1_mask, p2_mask, moves, 1, alpha, beta,
                                           depth, <<float_inf, "Draw", NumCells>>, cache)
                IN  [res |-> r.res, cache |-> CachePut(r.cache, cache_key, r.res)]

\* _solve_board_debug 577-597: one iteration of  for move in moves
DebugRootIter(board, moves, k, st, cache) ==
    CHOOSE n \in
        {LET move   == moves[k]
             score  == r.res[1]
             alpha2 == IF st.alpha >= score THEN st.alpha ELSE score
         IN  [st    |-> IF score > st.best_score
                        THEN [alpha |-> alpha2, best_move |-> move, best_score |-> score,
                              best_outcome |-> r.res[2], best_depth |-> r.res[3]]
                        ELSE [st EXCEPT !.alpha = alpha2],
              cache |-> r.cache]
         : r \in {minimax_debug(board, {moves[k]}, {}, moves[k], FALSE,
                                st.alpha, float_inf, 1, cache)}} : TRUE

\* _solve_board_debug 577-597:  for move in moves  from position k on
RECURSIVE DebugRootLoop(_, _, _, _, _)
DebugRootLoop(board, moves, k, st, cache) ==
    IF k > Len(moves)
    THEN [st |-> st, cache |-> cache]
    ELSE CHOOSE out \in
        {IF float_inf <= n.st.alpha
         THEN n
         ELSE DebugRootLoop(board, moves, k + 1, n.st, n.cache)
         : n \in {DebugRootIter(board, moves, k, st, cache)}} : TRUE

\* _analyze_p2_responses_debug 688-699:  for p2_move in p2_legal  from position j
RECURSIVE DebugReplyLoop(_, _, _, _, _, _)
DebugReplyLoop(board, p1_move, p2_legal, j, best, cache) ==
    IF j > Len(p2_legal)
    THEN [best |-> best, cache |-> cache]
    ELSE CHOOSE out \in
        {DebugReplyLoop(board, p1_move, p2_legal, j + 1,
                        IF r.res[1] < best.score
                        THEN [score |-> r.res[1], move |-> p2_legal[j], outcome |-> r.res[2]]
                        ELSE best,
                        r.cache)
         : r \in {minimax_debug(board, {p1_move}, {p2_legal[j]}, p2_legal[j], TRUE,
                                -float_inf, float_inf, 2, cache)}} : TRUE

\* _analyze_p2_responses_debug 680-708:  for p1_move in p1_opening_moves  from
\* position k on
RECURSIVE DebugOpeningLoop(_, _, _, _, _)
DebugOpeningLoop(board, p1_opening_moves, k, responses, cache) ==
    IF k > Len(p1_opening_moves)
    THEN responses
    ELSE CHOOSE out \in
        {DebugOpeningLoop(board, p1_opening_moves, k + 1,
             Append(responses,
                    P2Response(p1_opening_moves[k], a.best.move,
                               a.best.score = P1_WINS, a.best.outcome)),
             a.cache)
         : a \in {DebugReplyLoop(board, p1_opening_moves[k],
                                 get_legal_moves(board, {p1_opening_moves[k]},
                                                 <<p1_opening_moves[k]>>),
                                 1,
                                 [score |-> float_inf, move |-> -1, outcome |-> "Draw"],
                                 cache)}} : TRUE

\* _analyze_p2_responses_debug (675-710); sorted(...) of line 680 is AscendingSeq
_analyze_p2_responses_debug(board, cache) ==
    DebugOpeningLoop(board,
                     AscendingSeq({get_legal_moves(board, {}, <<>>)[k] :
                                      k \in DOMAIN get_legal_moves(board, {}, <<>>)}),
                     1, <<>>, cache)

\* _solve_board_debug 599-624: the tallies and the record
SolveResultDebug(best_score, best_move, best_outcome, best_depth, skip_p2, p2_responses) ==
    [is_p1_win          |-> best_score = P1_WINS,
     is_draw            |-> best_score = DRAW_SCORE,
     best_move          |-> best_move,
     outcome            |-> best_outcome,
     game_depth         |-> best_depth,
     best_move_position |-> classify_position(best_move),
     p1_wins_count      |-> IF skip_p2 THEN 0 ELSE P1WinsCount(p2_responses),
     p2_wins_count      |-> IF skip_p2 THEN 0 ELSE P2WinsCount(p2_responses),
     draws_count        |-> IF skip_p2 THEN 0 ELSE DrawsCount(p2_responses),
     p2_responses       |-> p2_responses]

\* _solve_board_debug (563-624)
_solve_board_debug(board, skip_p2) ==
    CHOOSE result \in
        {SolveResultDebug(p1.st.best_score, p1.st.best_move, p1.st.best_outcome,
                          p1.st.best_depth, skip_p2,
                          IF skip_p2 THEN <<>>
                          ELSE _analyze_p2_responses_debug(board, p1.cache))
         : p1 \in {DebugRootLoop(board, get_legal_moves(board, {}, <<>>), 1,
                                 [alpha |-> -float_inf, best_move |-> -1,
                                  best_score |-> -2, best_outcome |-> "Draw",
                                  best_depth |-> NumCells], <<>>)}} : TRUE

\* SolveResult.duplicate (models.py 82-90)
SolveResult_duplicate ==
    [is_p1_win          |-> None,
     is_draw            |-> FALSE,
     best_move          |-> -1,
     outcome            |-> "Duplicate",
     game_depth         |-> 0,
     best_move_position |-> "",
     p1_wins_count      |-> 0,
     p2_wins_count      |-> 0,
     draws_count        |-> 0,
     p2_responses       |-> <<>>]

\* variant of the test of line 442: the flag is not consulted
solve_board_is_duplicate_FlagIgnored(board, skip_canonical) == ~is_canonical(tuple(board))

\* line 442:  not skip_canonical and not is_canonical(tuple(board))
solve_board_is_duplicate(board, skip_canonical) ==
    ~skip_canonical /\ ~is_canonical(tuple(board))

\* solve_board (429-455), with the Python fallback of line 450 (no
\* solver_core.so is loaded)
solve_board(board, debug, skip_canonical, skip_p2) ==
    IF solve_board_is_duplicate(board, skip_canonical)
    THEN SolveResult_duplicate
    ELSE IF debug
    THEN _solve_board_debug(board, skip_p2)
    ELSE _solve_board_python(board, skip_p2)

(***************************************************************************)
(* The game itself, for stating what the solver is to compute: the value   *)
(* of a position for Player 1 by plain minimax over the rules, with no     *)
(* window and no table.                                                    *)
(***************************************************************************)
MaxOf(S) == CHOOSE x \in S : \A y \in S : y <= x
MinOf(S) == CHOOSE x \in S : \A y \in S : x <= y

\* the cells the player to move may play after "last"
LegalReplies(b, taken, last) ==
    {i \in Cells \ taken : b[i + 1][1] = b[last + 1][1] \/ b[i + 1][2] = b[last + 1][2]}

HasPattern(mask) == \E k \in 1 .. Len(WIN_MASKS) : WIN_MASKS[k][1] \subseteq mask

RECURSIVE ExactValue(_, _, _, _, _)
ExactValue(b, p1, p2, last, p1ToMove) ==
    IF HasPattern(IF p1ToMove THEN p2 ELSE p1)
    THEN (IF p1ToMove THEN -1 ELSE 1)
    ELSE IF p1 \cup p2 = Cells
    THEN 0
    ELSE LET replies == LegalReplies(b, p1 \cup p2, last)
         IN  IF replies = {}
             THEN (IF p1ToMove THEN -1 ELSE 1)
             ELSE IF p1ToMove
             THEN MaxOf({ExactValue(b, p1 \cup {i}, p2, i, FALSE) : i \in replies})
             ELSE MinOf({ExactValue(b, p1, p2 \cup {i}, i, TRUE) : i \in replies})

\* the value of the position after Player 1 opens on cell m
OpeningValue(b, m) == ExactValue(b, {m}, {}, m, FALSE)

OpeningCells == {OPENING_INDICES[k] : k \in 1 .. Len(OPENING_INDICES)}

\* the value of the board for Player 1
GameValue(b) == MaxOf({OpeningValue(b, m) : m \in OpeningCells})

(***************************************************************************)
(* The program as a state machine.  A board comes from the pool            *)
(* (random.shuffle in main.py, get_permutation(TILES, rank) in             *)
(* debug_board.py); the sampler task canonicalizes it and solves the       *)
(* representative, with or without phase 2; the debug driver solves it as  *)
(* it is, with phase 2.  One solve at a time (a solve is single-threaded   *)
(* and its table is private); one action per iteration of the two root     *)
(* loops of the solve.                                                     *)
(***************************************************************************)
VARIABLES
    shuffled,       \* the board drawn from the pool
    driver,         \* "none", then "sampler" or "debug"
    board,          \* the board handed to solve_board
    perm_index,     \* its rank
    skip_p2,        \* the flag of the solve in progress
    pc,             \* "idle", "phase1", "phase1_done", "phase2", "return"
    cache,          \* the transposition table of the solve in progress
    alpha,          \* _solve_board_python: alpha
    best_move,      \* _solve_board_python: best_move
    best_score,     \* _solve_board_python: best_score
    best_out_idx,   \* _solve_board_python: best_out_idx
    best_depth,     \* _solve_board_python: best_depth
    oi,             \* position of the running root loop in OPENING_INDICES
    p2_responses,   \* _analyze_p2_responses: results
    p2_scores,      \* best_p2_score at line 664 of each finished iteration
    results,        \* skip_p2 |-> the SolveResult returned by the solve with that flag
    rows,           \* skip_p2 |-> the rows returned by solve_one with that flag
    \* calls of the board utilities (utils.py), one scenario per behaviour
    upc,            \* "start", then the name of the last call made
    ub,             \* a shuffled board
    ucanon,         \* canonicalize_board(ub)
    uis_canonical,  \* is_canonical(tuple(ub))
    ucanon2,        \* canonicalize_board(ucanon)
    uis_canonical2, \* is_canonical(ucanon)
    uimage,         \* ub moved, relabeled and possibly swapped
    ucanon_image,   \* canonicalize_board(uimage)
    ui,             \* an index
    uunranked,      \* get_permutation(TILES, ui), or of urank
    urank,          \* board_to_perm_index of ub, or of uunranked
    ub2,            \* a second board
    urank2,         \* board_to_perm_index(ub2)
    \* the parent process of the sampler (main.py main) and the database file
    mpc,            \* position of the parent in main
    task_results,   \* <<rank drawn, flag>> |-> what solve_one returns on that draw
    args,           \* args.skip_p2, args.batch_size, args.target (0: not given)
    batch_no,       \* number of batches submitted
    futures,        \* slot |-> None while the task runs, then Raised or its result
    completed,      \* slots in order of completion, not yet yielded by as_completed
    batch_solutions,
    batch_p2,
    new_solved,
    db,             \* the committed content of the two tables
    conn,           \* save_batch: the tables as the open connection sees them
    counted,        \* the tasks counted in new_solved: <<batch, slot, result>>
    handed,         \* the rows passed to save_batch so far, per table
    \* the scan of debug_board.py main (--find-canonical)
    dpc,            \* "off", "start", "scan", "found", "no_scan", "invalid", "raised"
    dperm_index,    \* main: perm_index
    dboard,         \* main: board
    \* a worker process of the sampler, over its tasks
    solved_before,  \* <<board, flag, SolveResult>> of the tasks it has finished
    \* one call of the entry point solve_board (solver.py 429-455)
    epc,            \* "off", "start", "duplicate", "search", "returned"
    eboard,         \* solve_board: board
    eargs,          \* solve_board: debug, skip_canonical, skip_p2
    eresult         \* the SolveResult returned

solveVars == <<shuffled, driver, board, perm_index, skip_p2, pc, cache, alpha, best_move,
               best_score, best_out_idx, best_depth, oi, p2_responses, p2_scores,
               results, rows>>

utilVars == <<upc, ub, ucanon, uis_canonical, ucanon2, uis_canonical2, uimage,
              ucanon_image, ui, uunranked, urank, ub2, urank2>>

mainVars == <<mpc, task_results, args, batch_no, futures, completed, batch_solutions, batch_p2,
              new_solved, db, conn, counted, handed>>

debugVars == <<dpc, dperm_index, dboard>>

procVars == <<solved_before>>

entryVars == <<epc, eboard, eargs, eresult>>

vars == <<solveVars, utilVars, mainVars, debugVars, procVars, entryVars>>

\* no utility call has been made
UtilIdle ==
    /\ upc = "start"
    /\ ub = None
    /\ ucanon = None
    /\ uis_canonical = None
    /\ ucanon2 = None
    /\ uis_canonical2 = None
    /\ uimage = None
    /\ ucanon_image = None
    /\ ui = None
    /\ uunranked = None
    /\ urank = None
    /\ ub2 = None
    /\ urank2 = None

\* the sampler's parent has not been started
MainIdle ==
    /\ mpc = "off"
    /\ task_results = <<>>
    /\ args = [skip_p2 |-> FALSE, batch_size |-> 0, target |-> 0]
    /\ batch_no = 0
    /\ futures = <<>>
    /\ completed = <<>>
    /\ batch_solutions = <<>>
    /\ batch_p2 = <<>>
    /\ new_solved = 0
    /\ db = EmptyStore
    /\ conn = EmptyStore
    /\ counted = {}
    /\ handed = EmptyStore

\* the debug driver has not been started
DebugIdle ==
    /\ dpc = "off"
    /\ dperm_index = None
    /\ dboard = None

\* the process has finished no task
ProcIdle ==
    /\ solved_before = <<>>

\* solve_board has not been called on its own
EntryIdle ==
    /\ epc = "off"
    /\ eboard = None
    /\ eargs = None
    /\ eresult = None

\* ranks of the boards drawn in the checked instances
SampleRanks == {0, 1, 307, 1804, 1843}

Init ==
    /\ shuffled \in {get_permutation(TILES, r) : r \in SampleRanks}
    /\ driver = "none"
    /\ board = None
    /\ perm_index = None
    /\ skip_p2 = FALSE
    /\ pc = "idle"
    /\ cache = <<>>
    /\ alpha = _NEG_INF
    /\ best_move = -1
    /\ best_score = _NEG_INF
    /\ best_out_idx = _OUT_DRAW
    /\ best_depth = NumCells
    /\ oi = 0
    /\ p2_responses = <<>>
    /\ p2_scores = <<>>
    /\ results = <<>>
    /\ rows = <<>>
    /\ UtilIdle
    /\ MainIdle
    /\ DebugIdle
    /\ ProcIdle
    /\ EntryIdle

\* variant: the table of the process's previous solve is taken again
solve_board_cache_Kept == cache

\* solve_board line 450:  cache: dict = {}
solve_board_cache == <<>>

\* solve_board 450 and _solve_board_python 513-518: a fresh table and the
\* initial values of the root search
BeginSolve(b, skip) ==
    /\ board' = b
    /\ perm_index' = board_to_perm_index(b)
    /\ skip_p2' = skip
    /\ cache' = solve_board_cache
    /\ alpha' = _NEG_INF
    /\ best_move' = -1
    /\ best_score' = _NEG_INF
    /\ best_out_idx' = _OUT_DRAW
    /\ best_depth' = NumCells
    /\ oi' = 1
    /\ p2_responses' = <<>>
    /\ p2_scores' = <<>>
    /\ pc' = "phase1"

\* main.py solve_one 50-56: canonicalize, rank, solve_board(skip_canonical=True)
SolveOne(skip) ==
    /\ pc = "idle"
    /\ driver \in {"none", "sampler"}
    /\ skip \notin DOMAIN results
    /\ driver' = "sampler"
    /\ \E canonical \in {canonicalize_board(shuffled)} : BeginSolve(canonical, skip)
    /\ UNCHANGED <<shuffled, results, rows>>
    /\ UNCHANGED <<utilVars, mainVars, debugVars, procVars, entryVars>>

\* debug_board.py main 81-102: solve_board(board, skip_canonical=True)
DebugMain ==
    /\ pc = "idle"
    /\ driver = "none"
    /\ driver' = "debug"
    /\ BeginSolve(shuffled, FALSE)
    /\ UNCHANGED <<shuffled, results, rows>>
    /\ UNCHANGED <<utilVars, mainVars, debugVars, procVars, entryVars>>

\* lines 524-528
RootKeepsMove(s) == s > best_score

\* one iteration of  for move in OPENING_INDICES  (lines 520-532)
Phase1Step ==
    /\ pc = "phase1"
    /\ \E r \in {minimax(board, {OPENING_INDICES[oi]}, {}, OPENING_INDICES[oi], FALSE,
                          alpha, _INF, 1, cache)} :
       LET move   == OPENING_INDICES[oi]
           s      == r.res[1]
           alpha2 == IF s > alpha THEN s ELSE alpha
       IN  /\ cache' = r.cache
           /\ IF RootKeepsMove(s)
              THEN /\ best_score' = s
                   /\ best_move' = move
                   /\ best_out_idx' = r.res[2]
                   /\ best_depth' = r.res[3]
              ELSE UNCHANGED <<best_score, best_move, best_out_idx, best_depth>>
           /\ alpha' = alpha2
           /\ IF _INF <= alpha2 \/ oi = Len(OPENING_INDICES)
              THEN pc' = "phase1_done" /\ oi' = oi
              ELSE pc' = "phase1" /\ oi' = oi + 1
    /\ UNCHANGED <<shuffled, driver, board, perm_index, skip_p2, p2_responses,
                   p2_scores, results, rows>>
    /\ UNCHANGED <<utilVars, mainVars, debugVars, procVars, entryVars>>

\* lines 538-542: phase 2 is skipped
SkipPhase2 ==
    /\ pc = "phase1_done"
    /\ skip_p2
    /\ p2_responses' = <<>>
    /\ pc' = "return"
    /\ UNCHANGED <<shuffled, driver, board, perm_index, skip_p2, cache, alpha,
                   best_move, best_score, best_out_idx, best_depth, oi, p2_scores,
                   results, rows>>
    /\ UNCHANGED <<utilVars, mainVars, debugVars, procVars, entryVars>>

\* line 544 and line 635: enter _analyze_p2_responses with the same table
BeginPhase2 ==
    /\ pc = "phase1_done"
    /\ ~skip_p2
    /\ p2_responses' = <<>>
    /\ p2_scores' = <<>>
    /\ oi' = 1
    /\ pc' = "phase2"
    /\ UNCHANGED <<shuffled, driver, board, perm_index, skip_p2, cache, alpha,
                   best_move, best_score, best_out_idx, best_depth, results, rows>>
    /\ UNCHANGED <<utilVars, mainVars, debugVars, procVars, entryVars>>

\* one iteration of  for p1_move in OPENING_INDICES  (lines 637-670)
Phase2Step ==
    /\ pc = "phase2"
    /\ \E a \in {AnalyzeOpening(board, OPENING_INDICES[oi], cache)} :
           /\ p2_responses' = Append(p2_responses, a.resp)
           /\ p2_scores' = Append(p2_scores, a.score)
           /\ cache' = a.cache
    /\ IF oi = Len(OPENING_INDICES)
       THEN pc' = "return" /\ oi' = oi
       ELSE pc' = "phase2" /\ oi' = oi + 1
    /\ UNCHANGED <<shuffled, driver, board, perm_index, skip_p2, alpha, best_move,
                   best_score, best_out_idx, best_depth, results, rows>>
    /\ UNCHANGED <<utilVars, mainVars, debugVars, procVars, entryVars>>

\* lines 534-560: the record is returned; in the sampler, solve_one turns it
\* into rows (main.py 58-85)
Return ==
    /\ pc = "return"
    /\ \E result \in {SolveResult(best_score, best_move, best_out_idx, best_depth,
                                    skip_p2, p2_responses)} :
           /\ results' = (skip_p2 :> result) @@ results
           /\ rows' = IF driver = "sampler"
                      THEN (skip_p2 :> solve_one_rows(perm_index, skip_p2, result)) @@ rows
                      ELSE rows
    /\ pc' = "idle"
    /\ UNCHANGED <<shuffled, driver, board, perm_index, skip_p2, cache, alpha,
                   best_move, best_score, best_out_idx, best_depth, oi,
                   p2_responses, p2_scores>>
    /\ UNCHANGED <<utilVars, mainVars, debugVars, procVars, entryVars>>

Next ==
    \/ \E skip \in BOOLEAN : SolveOne(skip)
    \/ DebugMain
    \/ Phase1Step
    \/ SkipPhase2
    \/ BeginPhase2
    \/ Phase2Step
    \/ Return

Spec == Init /\ [][Next]_vars

(***************************************************************************)
(* Properties of the solve.  "the solve has finished phase 1" is           *)
(* pc = "phase1_done"; results[f] is the record returned by the solve      *)
(* with skip_p2 = f, once it has returned.                                 *)
(***************************************************************************)
Returned(f) == pc = "idle" /\ f \in DOMAIN results

\* the lowest-index opening whose exact value is the value of the board
FirstBestOpening(b) ==
    OPENING_INDICES[MinOf({k \in 1 .. Len(OPENING_INDICES) :
                              OpeningValue(b, OPENING_INDICES[k]) = GameValue(b)})]

\* C1: the phase-1 score of a solve (openings in ascending order, window
\* (-2,+2), alpha-beta pruning, shared table) is the exact value of the board
\* for Player 1 by plain minimax; is_p1_win holds iff that value is +1 and
\* is_draw iff it is 0.
C1_Phase1ScoreIsExactValue ==
    /\ pc = "phase1_done" => best_score = GameValue(board)
    /\ \A f \in BOOLEAN : Returned(f) =>
          /\ results[f].is_p1_win = (GameValue(board) = P1_WINS)
          /\ results[f].is_draw = (GameValue(board) = DRAW_SCORE)

\* C2: for every opening analysed by phase 2 (table of phase 1 reused, each
\* reply searched with a fresh window at depth 2), the reported reply is a
\* minimizing one: the score kept for it is the exact value of the position
\* after the opening, the reply itself has that exact value, and is_p1_win is
\* true iff that value is +1.
C2_ReplyIsMinimizing ==
    pc \in {"phase2", "return"} /\ Len(p2_scores) > 0 =>
        LET k == Len(p2_scores)
            m == OPENING_INDICES[k]
            v == OpeningValue(board, m)
            r == p2_responses[k]
        IN  /\ p2_scores[k] = v
            /\ r.p1_move = m
            /\ r.p2_best_move \in LegalReplies(board, {m}, m)
            /\ ExactValue(board, {m}, {r.p2_best_move}, r.p2_best_move, TRUE) = v
            /\ r.is_p1_win = (v = P1_WINS)

\* C3: the best_move of a solve is the lowest-index opening cell whose exact
\* value equals the best exact value over all openings.
C3_BestMoveIsFirstBestOpening ==
    /\ pc = "phase1_done" => best_move = FirstBestOpening(board)
    /\ \A f \in BOOLEAN : Returned(f) => results[f].best_move = FirstBestOpening(board)

\* C4: for a board solved with phase 2, the three counts are non-negative and
\* add up to the number of opening cells, and p2_responses has one entry per
\* opening cell, in ascending order of the cell.
C4_CountsPartitionOpenings ==
    FALSE \in DOMAIN results =>
        LET r == results[FALSE]
            n == Len(OPENING_INDICES)
        IN  /\ r.p1_wins_count + r.p2_wins_count + r.draws_count = n
            /\ r.p1_wins_count >= 0
            /\ r.p2_wins_count >= 0
            /\ r.draws_count >= 0
            /\ Len(r.p2_responses) = n
            /\ \A k \in 1 .. n : r.p2_responses[k].p1_move = OPENING_INDICES[k]
            /\ \A k \in 1 .. (n - 1) :
                  r.p2_responses[k].p1_move < r.p2_responses[k + 1].p1_move

\* a phase-2 result in which all three kinds of opening occur
C4_Witness ==
    /\ FALSE \in DOMAIN results
    /\ results[FALSE].p1_wins_count > 0
    /\ results[FALSE].p2_wins_count > 0
    /\ results[FALSE].draws_count > 0

InteriorCells ==
    {c \in Cells : (c \div Side) \in 1 .. (Side - 2) /\ (c % Side) \in 1 .. (Side - 2)}

C6_PhasesAgree ==
    FALSE \in DOMAIN results =>
        LET r == results[FALSE]
            K == 1 .. Len(r.p2_responses)
        IN  /\ r.is_p1_win =>
                  /\ \E k \in K : r.p2_responses[k].p1_move = r.best_move
                  /\ \A k \in K : r.p2_responses[k].p1_move = r.best_move
                                     => r.p2_responses[k].is_p1_win
            /\ ~r.is_p1_win => \E k \in K : ~r.p2_responses[k].is_p1_win

\* a won board whose best opening is not the first and on which other
\* openings are not won
C6_Witness ==
    /\ FALSE \in DOMAIN results
    /\ results[FALSE].is_p1_win
    /\ results[FALSE].best_move # OPENING_INDICES[1]
    /\ results[FALSE].p1_wins_count < Len(OPENING_INDICES)

\* C7: in every returned result and in every triple returned by minimax (each
\* is stored in the table when it is returned), outcome = Draw implies that
\* the depth is the number of cells.
C7_DrawOnlyAtFullDepth ==
    /\ \A key \in DOMAIN cache : cache[key][2] = _OUT_DRAW => cache[key][3] = NumCells
    /\ best_out_idx = _OUT_DRAW => best_depth = NumCells
    /\ \A f \in DOMAIN results :
          results[f].outcome = "Draw" => results[f].game_depth = NumCells

\* a drawn result, with drawn triples of inner positions in the table
C7_Witness ==
    /\ \E f \in DOMAIN results :
          results[f].outcome = "Draw" /\ results[f].game_depth = NumCells
    /\ \E key \in DOMAIN cache :
          /\ cache[key][2] = _OUT_DRAW
          /\ Cardinality(key[1]) + Cardinality(key[2]) < NumCells - 1

\* C8: for every response of phase 2, outcome = Draw iff is_p1_win is false
\* and the minimizing score of the opening is 0; so the openings where P2
\* forces a draw are those counted by draws_count, those P2 wins are those
\* counted by p2_wins_count, and no response is both a P1 win and a draw.
C8_DrawResponseIffScoreZero ==
    /\ \A k \in 1 .. Len(p2_responses) :
          /\ (p2_responses[k].outcome = "Draw")
                <=> (~p2_responses[k].is_p1_win /\ p2_scores[k] = DRAW_SCORE)
          /\ ~(p2_responses[k].is_p1_win /\ p2_responses[k].outcome = "Draw")
    /\ Returned(FALSE) /\ ~skip_p2 =>
          LET K == 1 .. Len(p2_scores)
          IN  /\ results[FALSE].draws_count
                    = Cardinality({k \in K : p2_scores[k] = DRAW_SCORE})
              /\ results[FALSE].p2_wins_count
                    = Cardinality({k \in K : p2_scores[k] = P1_LOSES})
              /\ results[FALSE].p1_wins_count
                    = Cardinality({k \in K : p2_scores[k] = P1_WINS})

\* a returned result with an opening on which P2 forces a draw
C8_Witness ==
    /\ Returned(FALSE) /\ ~skip_p2
    /\ results[FALSE].draws_count > 0
    /\ \E k \in 1 .. Len(p2_scores) :
          p2_scores[k] = DRAW_SCORE /\ p2_responses[k].outcome = "Draw"

\* C9: with skip_p2 set, phase 2 is not run: the result has no responses and
\* zero counts, the sampler's solution row has has_p2_data false and there
\* are no p2_responses rows; is_p1_win, is_draw, best_move, outcome and
\* game_depth are those of the solve of the same board with phase 2.
C9_SkipP2OmitsPhase2Only ==
    /\ skip_p2 => pc # "phase2" /\ p2_responses = <<>>
    /\ TRUE \in DOMAIN results =>
          /\ results[TRUE].p2_responses = <<>>
          /\ results[TRUE].p1_wins_count = 0
          /\ results[TRUE].p2_wins_count = 0
          /\ results[TRUE].draws_count = 0
    /\ TRUE \in DOMAIN rows =>
          /\ Len(rows[TRUE].solution_row) = 1
          /\ rows[TRUE].solution_row[1][11] = FALSE
          /\ rows[TRUE].p2_rows = <<>>
    /\ TRUE \in DOMAIN results /\ FALSE \in DOMAIN results =>
          /\ results[TRUE].is_p1_win = results[FALSE].is_p1_win
          /\ results[TRUE].is_draw = results[FALSE].is_draw
          /\ results[TRUE].best_move = results[FALSE].best_move
          /\ results[TRUE].outcome = results[FALSE].outcome
          /\ results[TRUE].game_depth = results[FALSE].game_depth

\* the sampler has solved the same board with and without phase 2
C9_Witness ==
    /\ TRUE \in DOMAIN rows
    /\ FALSE \in DOMAIN rows
    /\ Len(results[FALSE].p2_responses) = Len(OPENING_INDICES)
    /\ rows[FALSE].solution_row[1][11] = TRUE

(***************************************************************************)
(* The symmetries of a layout: the eight rigid motions of the grid, a      *)
(* relabeling of each attribute, and the exchange of the two attributes.   *)
(***************************************************************************)
\* the cell (r, c) is sent to, one function per motion of the square
GridMotions ==
    LET n == Side - 1
    IN  { [rc \in Labels \X Labels |-> <<rc[1], rc[2]>>],
          [rc \in Labels \X Labels |-> <<rc[2], n - rc[1]>>],
          [rc \in Labels \X Labels |-> <<n - rc[1], n - rc[2]>>],
          [rc \in Labels \X Labels |-> <<n - rc[2], rc[1]>>],
          [rc \in Labels \X Labels |-> <<rc[1], n - rc[2]>>],
          [rc \in Labels \X Labels |-> <<n - rc[1], rc[2]>>],
          [rc \in Labels \X Labels |-> <<rc[2], rc[1]>>],
          [rc \in Labels \X Labels |-> <<n - rc[2], n - rc[1]>>] }

\* the layout b moved by g: the tile of cell (r, c) goes to cell g[r, c]
Moved(b, g) ==
    [k \in 1 .. NumCells |->
        LET src == CHOOSE rc \in Labels \X Labels :
                       g[rc][1] * Side + g[rc][2] = k - 1
        IN  b[src[1] * Side + src[2] + 1]]

LabelBijections == {f \in [Labels -> Labels] : \A x, y \in Labels : f[x] = f[y] => x = y}

\* the tiles of mb relabeled by f (first attribute) and h (second), then the
\* attributes exchanged if swap
Relabeled(mb, f, h, swap) ==
    [k \in 1 .. NumCells |->
        IF swap THEN <<h[mb[k][2]], f[mb[k][1]]>> ELSE <<f[mb[k][1]], h[mb[k][2]]>>]

SymmetricImages(b) ==
    { tuple(Relabeled(tuple(Moved(b, g)), f, h, swap)) :
        g \in GridMotions, f \in LabelBijections, h \in LabelBijections, swap \in BOOLEAN }

\* C10: the board the sampler solves, canonicalize_board of the drawn board,
\* is one of the images of the drawn board under the grid motions, the
\* relabelings and the attribute swap, and no image is lexicographically
\* smaller.
C10_CanonicalIsLexMin ==
    driver = "sampler" /\ pc = "phase1" /\ oi = 1 =>
        /\ board \in SymmetricImages(shuffled)
        /\ \A img \in SymmetricImages(shuffled) : ~LexLess(img, board)

(***************************************************************************)
(* The board utilities on their own (src/src/utils.py): a board is         *)
(* shuffled (main.py 50-51) and canonicalized, ranked, or compared with a  *)
(* second board; an index is given (debug_board.py 81) and unranked.       *)
(***************************************************************************)
\* ranks of the boards drawn in the checked instances of the utilities
UtilRanks ==
    SampleRanks \cup {74, 185, 777, 2664, 12345, 123456, 200000,
                      factorial(NumCells) - 1}

\* the indices given to get_permutation
UtilIndices ==
    UtilRanks \cup {factorial(NumCells), factorial(NumCells) + 1, 2 * factorial(NumCells),
                    -1, -factorial(NumCells), -factorial(NumCells) - 1}

IdentityLabels == [x \in Labels |-> x]
\* exchanges the labels 0 and 1
SwapFirstTwo == [x \in Labels |-> IF x = 0 THEN 1 ELSE IF x = 1 THEN 0 ELSE x]
ReverseLabels == [x \in Labels |-> Side - 1 - x]
CycleLabels == [x \in Labels |-> (x + 1) % Side]

\* the relabelings <<f, h, swap>> applied in the checked instances
SampleRelabelings ==
    { <<SwapFirstTwo, IdentityLabels, TRUE>>,
      <<CycleLabels, ReverseLabels, FALSE>> }

UShuffle(b) ==
    /\ upc = "start"
    /\ ub' = b
    /\ upc' = "shuffled"
    /\ UNCHANGED <<ucanon, uis_canonical, ucanon2, uis_canonical2, uimage, ucanon_image,
                   ui, uunranked, urank, ub2, urank2>>
    /\ UNCHANGED <<solveVars, mainVars, debugVars, procVars, entryVars>>

UCanonicalize ==
    /\ upc = "shuffled"
    /\ ucanon' = canonicalize_board(ub)
    /\ uis_canonical' = is_canonical(tuple(ub))
    /\ upc' = "canonicalized"
    /\ UNCHANGED <<ub, ucanon2, uis_canonical2, uimage, ucanon_image, ui, uunranked,
                   urank, ub2, urank2>>
    /\ UNCHANGED <<solveVars, mainVars, debugVars, procVars, entryVars>>

UCanonicalizeAgain ==
    /\ upc = "canonicalized"
    /\ ucanon2' = canonicalize_board(ucanon)
    /\ uis_canonical2' = is_canonical(ucanon)
    /\ upc' = "recanonicalized"
    /\ UNCHANGED <<ub, ucanon, uis_canonical, uimage, ucanon_image, ui, uunranked,
                   urank, ub2, urank2>>
    /\ UNCHANGED <<solveVars, mainVars, debugVars, procVars, entryVars>>

UCanonicalizeImage(g, relabeling) ==
    /\ upc = "canonicalized"
    /\ \E image \in {tuple(Relabeled(tuple(Moved(ub, g)), relabeling[1], relabeling[2],
                                     relabeling[3]))} :
          /\ uimage' = image
          /\ ucanon_image' = canonicalize_board(image)
    /\ upc' = "image_canonicalized"
    /\ UNCHANGED <<ub, ucanon, uis_canonical, ucanon2, uis_canonical2, ui, uunranked,
                   urank, ub2, urank2>>
    /\ UNCHANGED <<solveVars, mainVars, debugVars, procVars, entryVars>>

URank ==
    /\ upc = "shuffled"
    /\ urank' = board_to_perm_index(ub)
    /\ upc' = "ranked"
    /\ UNCHANGED <<ub, ucanon, uis_canonical, ucanon2, uis_canonical2, uimage,
                   ucanon_image, ui, uunranked, ub2, urank2>>
    /\ UNCHANGED <<solveVars, mainVars, debugVars, procVars, entryVars>>

UUnrankRank ==
    /\ upc = "ranked"
    /\ uunranked' = get_permutation(TILES, urank)
    /\ upc' = "rank_unranked"
    /\ UNCHANGED <<ub, ucanon, uis_canonical, ucanon2, uis_canonical2, uimage,
                   ucanon_image, ui, urank, ub2, urank2>>
    /\ UNCHANGED <<solveVars, mainVars, debugVars, procVars, entryVars>>

URankOther(b2) ==
    /\ upc = "ranked"
    /\ ub2' = b2
    /\ urank2' = board_to_perm_index(b2)
    /\ upc' = "ranked_two"
    /\ UNCHANGED <<ub, ucanon, uis_canonical, ucanon2, uis_canonical2, uimage,
                   ucanon_image, ui, uunranked, urank>>
    /\ UNCHANGED <<solveVars, mainVars, debugVars, procVars, entryVars>>

UUnrank(i) ==
    /\ upc = "start"
    /\ ui' = i
    /\ uunranked' = get_permutation(TILES, i)
    /\ upc' = "unranked"
    /\ UNCHANGED <<ub, ucanon, uis_canonical, ucanon2, uis_canonical2, uimage,
                   ucanon_image, urank, ub2, urank2>>
    /\ UNCHANGED <<solveVars, mainVars, debugVars, procVars, entryVars>>

URankUnranked ==
    /\ upc = "unranked"
    /\ uunranked \notin {None, IndexError}
    /\ urank' = board_to_perm_index(uunranked)
    /\ upc' = "unranked_ranked"
    /\ UNCHANGED <<ub, ucanon, uis_canonical, ucanon2, uis_canonical2, uimage,
                   ucanon_image, ui, uunranked, ub2, urank2>>
    /\ UNCHANGED <<solveVars, mainVars, debugVars, procVars, entryVars>>

\* no solve is in progress and none was made
SolveIdle ==
    /\ shuffled = None
    /\ driver = "none"
    /\ board = None
    /\ perm_index = None
    /\ skip_p2 = FALSE
    /\ pc = "off"
    /\ cache = <<>>
    /\ alpha = _NEG_INF
    /\ best_move = -1
    /\ best_score = _NEG_INF
    /\ best_out_idx = _OUT_DRAW
    /\ best_depth = NumCells
    /\ oi = 0
    /\ p2_responses = <<>>
    /\ p2_scores = <<>>
    /\ results = <<>>
    /\ rows = <<>>

UtilInit == SolveIdle /\ UtilIdle /\ MainIdle /\ DebugIdle /\ ProcIdle /\ EntryIdle

UtilNext ==
    \/ \E r \in UtilRanks : UShuffle(get_permutation(TILES, r))
    \/ UCanonicalize
    \/ UCanonicalizeAgain
    \/ \E g \in GridMotions, relabeling \in SampleRelabelings : UCanonicalizeImage(g, relabeling)
    \/ URank
    \/ UUnrankRank
    \/ \E r \in UtilRanks : URankOther(get_permutation(TILES, r))
    \/ \E i \in UtilIndices : UUnrank(i)
    \/ URankUnranked

UtilSpec == UtilInit /\ [][UtilNext]_vars

\* C11: canonicalize_board(B) is B or lexicographically below B, and
\* canonicalizing the result again gives the same result.
C11_CanonicalBelowAndIdempotent ==
    /\ ucanon # None => (ucanon = tuple(ub) \/ LexLess(ucanon, tuple(ub)))
    /\ ucanon2 # None => ucanon2 = ucanon

\* C12: for every image g.B of a board B (a motion of the grid, a relabeling
\* of each attribute, an optional attribute swap), canonicalize_board(g.B) is
\* canonicalize_board(B).
C12_CanonicalInvariantUnderSymmetry ==
    upc = "image_canonicalized" => ucanon_image = ucanon

\* C13: a board that canonicalize_board leaves as it is passes is_canonical.
C13_FixpointIsCanonical ==
    /\ (ucanon # None /\ ucanon = tuple(ub)) => uis_canonical = TRUE
    /\ (ucanon2 # None /\ ucanon2 = ucanon) => uis_canonical2 = TRUE

\* a board that passes is_canonical without being its own canonical form,
\* whose canonical form is a fixpoint and passes is_canonical
C13_Witness ==
    /\ upc = "recanonicalized"
    /\ uis_canonical = TRUE
    /\ ucanon # tuple(ub)
    /\ ucanon2 = ucanon
    /\ uis_canonical2 = TRUE

\* C14: board_to_perm_index(get_permutation(TILES, i)) = i for every i in
\* [0, n!), and get_permutation(TILES, board_to_perm_index(B)) = B for every
\* permutation B of the pool.
C14_RankUnrankInverse ==
    /\ (upc = "unranked_ranked" /\ ui \in 0 .. (factorial(NumCells) - 1)) => urank = ui
    /\ upc = "rank_unranked" => uunranked = ub

\* both round trips, on a board and an index that are neither first nor last
C14_Witness ==
    \/ /\ upc = "unranked_ranked"
       /\ ui \in 2 .. (factorial(NumCells) - 2)
       /\ urank = ui
       /\ uunranked # TILES
    \/ /\ upc = "rank_unranked"
       /\ urank \in 2 .. (factorial(NumCells) - 2)
       /\ uunranked = ub

\* C15: board_to_perm_index is the position in the lexicographic order of
\* the permutations of the sorted pool: it lies in [0, n!), it preserves the
\* strict order both ways, it is 0 exactly on the sorted pool and n! - 1
\* exactly on the reversed pool.
C15_RankIsLexPosition ==
    upc \in {"ranked", "ranked_two", "rank_unranked"} =>
        /\ urank \in 0 .. (factorial(NumCells) - 1)
        /\ (urank = 0) <=> (ub = TILES)
        /\ (urank = factorial(NumCells) - 1) <=> (ub = Reversed(TILES))
        /\ upc = "ranked_two" =>
              /\ LexLess(ub, ub2) <=> (urank < urank2)
              /\ (ub = ub2) <=> (urank = urank2)

\* two different boards ranked, the second below the first
C15_Witness ==
    /\ upc = "ranked_two"
    /\ LexLess(ub2, ub)
    /\ urank2 < urank
    /\ urank2 > 0

IsPermutationOfPool(b) ==
    /\ b \notin {None, IndexError}
    /\ Len(b) = NumCells
    /\ \A t \in 1 .. NumCells : Cardinality({k \in 1 .. NumCells : b[k] = TILES[t]}) = 1

\* C16: get_permutation(TILES, i) is None iff i >= n!; for every other
\* integer i it returns a permutation of the pool, each tile exactly once.
C16_UnrankNoneIffOutOfRange ==
    upc = "unranked" =>
        /\ (uunranked = None) <=> (ui >= factorial(NumCells))
        /\ ui < factorial(NumCells) => IsPermutationOfPool(uunranked)

(***************************************************************************)
(* The sampler: the parent process of main.py and the database file.  The  *)
(* parent submits a batch of tasks, takes their results in the order in    *)
(* which the workers finish, saves the batch and tests the target.  A task *)
(* returns the rows of the board it drew, or raises.  Ctrl+C may reach the *)
(* parent at any point of the loop.  save_batch is three steps on one      *)
(* connection; what it has written is in the file only after the commit.   *)
(***************************************************************************)
BatchSize == 2
Target == 3
MaxBatches == 2

Raised == <<"Raised">>

\* ranks of the boards the tasks draw in the checked instances
MainRanks == {1, 307}

\* solve_one on each draw, with each flag
TaskResults ==
    [p \in MainRanks \X BOOLEAN |-> solve_one(get_permutation(TILES, p[1]), p[2])] @@ <<>>

\* the file left by earlier runs: fresh, or holding one board saved by a run
\* with either flag
PreviousStores(table) ==
    {EmptyStore} \cup
    {save_batch(EmptyStore, table[<<307, s>>][1], table[<<307, s>>][2]) : s \in BOOLEAN}

\* main 106-146: the arguments are parsed, the file exists, nothing solved yet
MainStart ==
    /\ mpc = "submit"
    /\ task_results = TaskResults
    /\ args \in [skip_p2 : BOOLEAN, batch_size : {BatchSize}, target : {0, Target}]
    /\ batch_no = 0
    /\ futures = <<>>
    /\ completed = <<>>
    /\ batch_solutions = <<>>
    /\ batch_p2 = <<>>
    /\ new_solved = 0
    /\ db \in PreviousStores(task_results)
    /\ conn = EmptyStore
    /\ counted = {}
    /\ handed = EmptyStore

MainInit == SolveIdle /\ UtilIdle /\ MainStart /\ DebugIdle /\ ProcIdle /\ EntryIdle

\* lines 155-162: a batch is submitted, the two lists are emptied
Submit ==
    /\ mpc = "submit"
    /\ batch_no < MaxBatches
    /\ batch_no' = batch_no + 1
    /\ futures' = [k \in 1 .. args.batch_size |-> None]
    /\ completed' = <<>>
    /\ batch_solutions' = <<>>
    /\ batch_p2' = <<>>
    /\ mpc' = "collect"
    /\ UNCHANGED <<task_results, args, new_solved, db, conn, counted, handed>>
    /\ UNCHANGED <<solveVars, utilVars, debugVars, procVars, entryVars>>

\* a worker finishes solve_one (lines 43-85) on the board it drew
WorkerReturns(k, r) ==
    /\ mpc = "collect"
    /\ k \in DOMAIN futures
    /\ futures[k] = None
    /\ futures' = [futures EXCEPT ![k] = task_results[<<r, args.skip_p2>>]]
    /\ completed' = Append(completed, k)
    /\ UNCHANGED <<mpc, task_results, args, batch_no, batch_solutions, batch_p2, new_solved, db,
                   conn, counted, handed>>
    /\ UNCHANGED <<solveVars, utilVars, debugVars, procVars, entryVars>>

\* a worker's task ends with an exception
WorkerRaises(k) ==
    /\ mpc = "collect"
    /\ k \in DOMAIN futures
    /\ futures[k] = None
    /\ futures' = [futures EXCEPT ![k] = Raised]
    /\ completed' = Append(completed, k)
    /\ UNCHANGED <<mpc, task_results, args, batch_no, batch_solutions, batch_p2, new_solved, db,
                   conn, counted, handed>>
    /\ UNCHANGED <<solveVars, utilVars, debugVars, procVars, entryVars>>

\* lines 164-170: as_completed yields the next finished task, which returned
CollectResult ==
    /\ mpc = "collect"
    /\ completed # <<>>
    /\ futures[Head(completed)] # Raised
    /\ LET k        == Head(completed)
           sol_rows == futures[k][1]
           p2_rows  == futures[k][2]
       IN  IF sol_rows # <<>>
           THEN /\ batch_solutions' = AccumulateSolutions(batch_solutions, sol_rows)
                /\ batch_p2' = AccumulateP2(batch_p2, p2_rows)
                /\ new_solved' = new_solved + 1
                /\ counted' = counted \cup {<<batch_no, k, futures[k]>>}
           ELSE UNCHANGED <<batch_solutions, batch_p2, new_solved, counted>>
    /\ completed' = Tail(completed)
    /\ UNCHANGED <<mpc, task_results, args, batch_no, futures, db, conn, handed>>
    /\ UNCHANGED <<solveVars, utilVars, debugVars, procVars, entryVars>>

\* line 165: future.result() raises the task's exception; it is not a
\* KeyboardInterrupt, so it leaves the try statement of line 148 and main
CollectRaises ==
    /\ mpc = "collect"
    /\ completed # <<>>
    /\ futures[Head(completed)] = Raised
    /\ completed' = Tail(completed)
    /\ mpc' = "crashed"
    /\ UNCHANGED <<task_results, args, batch_no, futures, batch_solutions, batch_p2, new_solved, db,
                   conn, counted, handed>>
    /\ UNCHANGED <<solveVars, utilVars, debugVars, procVars, entryVars>>

\* the for statement of line 164 is exhausted; line 181
ForLoopEnds ==
    /\ mpc = "collect"
    /\ completed = <<>>
    /\ \A k \in DOMAIN futures : futures[k] # None
    /\ mpc' = IF batch_solutions # <<>> THEN "save_solutions" ELSE "target"
    /\ UNCHANGED <<task_results, args, batch_no, futures, completed, batch_solutions, batch_p2,
                   new_solved, db, conn, counted, handed>>
    /\ UNCHANGED <<solveVars, utilVars, debugVars, procVars, entryVars>>

\* line 182 and save_batch 76-82: connect, insert the solutions rows
SaveBatchSolutions ==
    /\ mpc = "save_solutions"
    /\ conn' = [db EXCEPT !.solutions = InsertSolutions(db.solutions, batch_solutions)]
    /\ handed' = [solutions    |-> handed.solutions
                                      \cup {batch_solutions[k] : k \in DOMAIN batch_solutions},
                  p2_responses |-> handed.p2_responses
                                      \cup {batch_p2[k] : k \in DOMAIN batch_p2}]
    /\ mpc' = "save_p2"
    /\ UNCHANGED <<task_results, args, batch_no, futures, completed, batch_solutions, batch_p2,
                   new_solved, db, counted>>
    /\ UNCHANGED <<solveVars, utilVars, debugVars, procVars, entryVars>>

\* save_batch 83-87: insert the reply rows, if any
SaveBatchP2 ==
    /\ mpc = "save_p2"
    /\ conn' = IF batch_p2 # <<>>
               THEN [conn EXCEPT !.p2_responses =
                         InsertP2Responses(conn.p2_responses, batch_p2)]
               ELSE conn
    /\ mpc' = "commit"
    /\ UNCHANGED <<task_results, args, batch_no, futures, completed, batch_solutions, batch_p2,
                   new_solved, db, counted, handed>>
    /\ UNCHANGED <<solveVars, utilVars, debugVars, procVars, entryVars>>

\* save_batch 89-90: commit, close
SaveBatchCommit ==
    /\ mpc = "commit"
    /\ db' = conn
    /\ conn' = EmptyStore
    /\ mpc' = "target"
    /\ UNCHANGED <<task_results, args, batch_no, futures, completed, batch_solutions, batch_p2,
                   new_solved, counted, handed>>
    /\ UNCHANGED <<solveVars, utilVars, debugVars, procVars, entryVars>>

\* lines 185-186
TargetCheck ==
    /\ mpc = "target"
    /\ mpc' = IF args.target # 0 /\ new_solved >= args.target THEN "done" ELSE "submit"
    /\ UNCHANGED <<task_results, args, batch_no, futures, completed, batch_solutions, batch_p2,
                   new_solved, db, conn, counted, handed>>
    /\ UNCHANGED <<solveVars, utilVars, debugVars, procVars, entryVars>>

\* lines 188-192: Ctrl+C anywhere in the loop; the pool is shut down and the
\* count printed.  A connection open in save_batch is dropped uncommitted.
KeyboardInterrupt ==
    /\ mpc \in {"submit", "collect", "save_solutions", "save_p2", "commit", "target"}
    /\ conn' = EmptyStore
    /\ mpc' = "stopped"
    /\ UNCHANGED <<task_results, args, batch_no, futures, completed, batch_solutions, batch_p2,
                   new_solved, db, counted, handed>>
    /\ UNCHANGED <<solveVars, utilVars, debugVars, procVars, entryVars>>

MainNext ==
    \/ Submit
    \/ \E k \in 1 .. BatchSize, r \in MainRanks : WorkerReturns(k, r)
    \/ \E k \in 1 .. BatchSize : WorkerRaises(k)
    \/ CollectResult
    \/ CollectRaises
    \/ ForLoopEnds
    \/ SaveBatchSolutions
    \/ SaveBatchP2
    \/ SaveBatchCommit
    \/ TargetCheck
    \/ KeyboardInterrupt

MainSpec == MainInit /\ [][MainNext]_vars

RowsOf(list) == {list[k] : k \in DOMAIN list}

SolutionsKeys(table) == {SolutionsKey(row) : row \in table}
P2ResponsesKeys(table) == {P2ResponsesKey(row) : row \in table}

KeysUnique ==
    /\ \A r1, r2 \in db.solutions : SolutionsKey(r1) = SolutionsKey(r2) => r1 = r2
    /\ \A r1, r2 \in db.p2_responses : P2ResponsesKey(r1) = P2ResponsesKey(r2) => r1 = r2

StoredRowsKept ==
    /\ db.solutions \subseteq db'.solutions
    /\ db.p2_responses \subseteq db'.p2_responses

\* C17: whatever is saved, each table holds at most one row per primary key,
\* and a stored row is never removed or replaced: a row handed in under a key
\* that is present changes nothing, the row written first stays.
C17_StorageKeepsFirstRow == []KeysUnique /\ [][StoredRowsKept]_vars

\* a save was committed in which a solutions row came in under a key that was
\* present with other content, and the stored row is still the old one
C17_Witness ==
    /\ mpc = "target"
    /\ \E row \in RowsOf(batch_solutions) :
           /\ row \notin db.solutions
           /\ \E old \in db.solutions : SolutionsKey(old) = SolutionsKey(row)

\* the rows of a counted task are in the committed tables, keys compared
TaskRowsTogether(result) ==
    /\ RowsOf(result[1]) \subseteq db.solutions
           => \A row \in RowsOf(result[2]) :
                  P2ResponsesKey(row) \in P2ResponsesKeys(db.p2_responses)
    /\ RowsOf(result[2]) \cap db.p2_responses # {}
           => \A row \in RowsOf(result[1]) :
                  SolutionsKey(row) \in SolutionsKeys(db.solutions)

\* C18: in whatever order the tasks finish, when save_batch is called the
\* solutions row and all reply rows of every task counted in the batch are in
\* its two arguments, and the committed tables never hold the solutions row
\* of a task without its reply rows, nor reply rows of it without a solutions
\* row.
C18_TaskRowsSavedTogether ==
    /\ mpc = "save_solutions" =>
           \A t \in counted :
               t[1] = batch_no =>
                   /\ RowsOf(t[3][1]) \subseteq RowsOf(batch_solutions)
                   /\ RowsOf(t[3][2]) \subseteq RowsOf(batch_p2)
    /\ \A t \in counted : TaskRowsTogether(t[3])

\* a batch with phase 2 whose second task finished first was committed, and
\* the rows of both tasks are in the two tables
C18_Witness ==
    /\ mpc = "target"
    /\ ~args.skip_p2
    /\ \E t1, t2 \in counted :
           /\ t1[1] = batch_no /\ t2[1] = batch_no
           /\ t1[2] = 1 /\ t2[2] = 2
           /\ t1[3] # t2[3]
           /\ batch_solutions = t2[3][1] \o t1[3][1]
           /\ t1[3][2] # <<>>
           /\ RowsOf(t1[3][1]) \cup RowsOf(t2[3][1]) \subseteq db.solutions
           /\ RowsOf(t1[3][2]) \cup RowsOf(t2[3][2]) \subseteq db.p2_responses

\* C19: when the parent has stopped on Ctrl+C, the rows of every task counted
\* in new_solved have been passed to save_batch.
C19_InterruptFlushesPartialBatch ==
    mpc = "stopped" =>
        \A t \in counted :
            /\ RowsOf(t[3][1]) \subseteq handed.solutions
            /\ RowsOf(t[3][2]) \subseteq handed.p2_responses

\* C20: a task that raises does not cost the batch its other results: when
\* the parent has ended other than on Ctrl+C, the rows of every task of the
\* last batch that returned have been passed to save_batch.
C20_WorkerFailureIsContained ==
    mpc \in {"done", "crashed"} =>
        \A k \in DOMAIN futures :
            futures[k] \notin {None, Raised} =>
                /\ RowsOf(futures[k][1]) \subseteq handed.solutions
                /\ RowsOf(futures[k][2]) \subseteq handed.p2_responses

\* C21: the loop is left on the target test only when a target was given, and
\* then the number of boards solved in this run is the target.
C21_StopsAtTarget ==
    mpc = "done" => (args.target # 0 /\ new_solved = args.target)

(***************************************************************************)
(* debug_board.py, main: the board of a rank and the --find-canonical scan *)
(* (lines 72-93).  One action per test of the while statement of line 90.  *)
(***************************************************************************)
\* indices given on the command line in the checked instances
DebugIndices ==
    {0, 5760, factorial(NumCells) - 2, factorial(NumCells) - 1, factorial(NumCells)}

DebugStart ==
    /\ dpc = "start"
    /\ dperm_index = None
    /\ dboard = None

DebugInit == SolveIdle /\ UtilIdle /\ MainIdle /\ DebugStart /\ ProcIdle /\ EntryIdle

\* lines 81-87: the board of the index; "Invalid permutation index" if none
DebugGet(i, explore_canonical) ==
    /\ dpc = "start"
    /\ dperm_index' = i
    /\ \E b \in {get_permutation(TILES, i)} :
           /\ dboard' = b
           /\ dpc' = IF b = IndexError THEN "raised"
                     ELSE IF b = None THEN "invalid"
                     ELSE IF explore_canonical THEN "scan"
                     ELSE "no_scan"
    /\ UNCHANGED <<solveVars, utilVars, mainVars, procVars, entryVars>>

\* line 90: the board is canonical, the scan ends (line 93)
ScanFound ==
    /\ dpc = "scan"
    /\ dboard # None
    /\ is_canonical(tuple(dboard))
    /\ dpc' = "found"
    /\ UNCHANGED <<dperm_index, dboard>>
    /\ UNCHANGED <<solveVars, utilVars, mainVars, procVars, entryVars>>

\* lines 90-92: the board is not canonical, the next index is taken
ScanStep ==
    /\ dpc = "scan"
    /\ dboard # None
    /\ ~is_canonical(tuple(dboard))
    /\ dperm_index' = dperm_index + 1
    /\ dboard' = get_permutation(TILES, dperm_index + 1)
    /\ UNCHANGED dpc
    /\ UNCHANGED <<solveVars, utilVars, mainVars, procVars, entryVars>>

\* line 90: tuple(board) with board = None raises TypeError
ScanRaises ==
    /\ dpc = "scan"
    /\ dboard = None
    /\ dpc' = "raised"
    /\ UNCHANGED <<dperm_index, dboard>>
    /\ UNCHANGED <<solveVars, utilVars, mainVars, procVars, entryVars>>

DebugNext ==
    \/ \E i \in DebugIndices, explore_canonical \in BOOLEAN : DebugGet(i, explore_canonical)
    \/ ScanFound
    \/ ScanStep
    \/ ScanRaises

DebugSpec == DebugInit /\ [][DebugNext]_vars

\* C22: the scan started from a rank of the pool never ends in an error and
\* never holds an index outside the pool's ranks: whenever it is still
\* scanning it has a board, and when it has ended it has a canonical board.
C22_ScanFindsCanonical ==
    /\ dpc = "scan" => (dperm_index < factorial(NumCells) /\ dboard # None)
    /\ dpc # "raised"
    /\ dpc = "found" => is_canonical(tuple(dboard))

(***************************************************************************)
(* A worker process of the sampler over its tasks: solve_one is called     *)
(* again and again in the same process, with the flag of the run; each     *)
(* call draws a board, canonicalizes it and solves it as above.            *)
(***************************************************************************)
MaxTasks == 3

\* ranks of the boards the process draws in the checked instances
ProcRanks == {1, 307}

ProcInit ==
    /\ shuffled \in {get_permutation(TILES, r) : r \in ProcRanks}
    /\ driver = "none"
    /\ board = None
    /\ perm_index = None
    /\ skip_p2 \in BOOLEAN
    /\ pc = "idle"
    /\ cache = <<>>
    /\ alpha = _NEG_INF
    /\ best_move = -1
    /\ best_score = _NEG_INF
    /\ best_out_idx = _OUT_DRAW
    /\ best_depth = NumCells
    /\ oi = 0
    /\ p2_responses = <<>>
    /\ p2_scores = <<>>
    /\ results = <<>>
    /\ rows = <<>>
    /\ UtilIdle
    /\ MainIdle
    /\ DebugIdle
    /\ ProcIdle
    /\ EntryIdle

\* main.py 43-56: the task of the process, with the flag of the run
ProcTask == SolveOne(skip_p2)

\* the rows are handed back and the pool gives the process its next task
\* (main.py 85, 50-51): a new draw; nothing of the finished solve is passed on
NextTask(b) ==
    /\ pc = "idle"
    /\ skip_p2 \in DOMAIN results
    /\ Len(solved_before) < MaxTasks - 1
    /\ solved_before' = Append(solved_before, <<board, skip_p2, results[skip_p2]>>)
    /\ shuffled' = b
    /\ driver' = "none"
    /\ results' = <<>>
    /\ rows' = <<>>
    /\ UNCHANGED <<board, perm_index, skip_p2, pc, cache, alpha, best_move, best_score,
                   best_out_idx, best_depth, oi, p2_responses, p2_scores>>
    /\ UNCHANGED <<utilVars, mainVars, debugVars, entryVars>>

ProcNext ==
    \/ ProcTask
    \/ Phase1Step
    \/ SkipPhase2
    \/ BeginPhase2
    \/ Phase2Step
    \/ Return
    \/ \E b \in {get_permutation(TILES, r) : r \in ProcRanks} : NextTask(b)

ProcSpec == ProcInit /\ [][ProcNext]_vars

\* C23: the record a solve returns is the record of a solve of the same board
\* in a fresh process, whatever the process has solved before, and two solves
\* of one board in one process return the same record.
C23_SolveIsHistoryFree ==
    /\ (pc = "idle" /\ skip_p2 \in DOMAIN results)
           => results[skip_p2] = _solve_board_python(board, skip_p2)
    /\ \A i, j \in DOMAIN solved_before :
           (solved_before[i][1] = solved_before[j][1]
                /\ solved_before[i][2] = solved_before[j][2])
               => solved_before[i][3] = solved_before[j][3]

\* a board was solved, then another board, then the first board again
C23_Witness ==
    /\ pc = "idle"
    /\ skip_p2 \in DOMAIN results
    /\ Len(solved_before) = 2
    /\ solved_before[1][1] = board
    /\ solved_before[2][1] # board
    /\ solved_before[1][3] = results[skip_p2]

(***************************************************************************)
(* The nodes of the search.  A node the search has entered is a key of the *)
(* table: minimax stores the triple it returns under the key of the node   *)
(* on every return that is not a table hit (lines 225, 232, 254, 281,      *)
(* 304), and a table hit returns the stored triple.                        *)
(***************************************************************************)
\* the mask of the player who placed the last marker
PrevMask(key) == IF key[4] THEN key[2] ELSE key[1]

\* the ply of the node: the number of markers on the board
Ply(key) == Cardinality(key[1] \cup key[2])

\* the value of the node
NodeValue(b, key) == ExactValue(b, key[1], key[2], key[3], key[4])

\* C24: every triple in the table carries the exact value of its node (so it
\* is valid for every window; a triple left by a cut-off search is a bound).
C24_TableHoldsExactValues ==
    \A key \in DOMAIN cache : cache[key][1] = NodeValue(board, key)

\* the classes of the winning patterns a mask contains
ClassesIn(mask) == {WIN_MASKS[k][2] : k \in {k \in DOMAIN WIN_MASKS : WIN_MASKS[k][1] \subseteq mask}}

\* C25: at a node whose previous mover holds winning patterns, the class
\* reported is the first of Row, Column, MainDiagonal, AntiDiagonal, Square
\* (the order of the outcome indices) among the classes of those patterns.
C25_FirstClassInFixedOrder ==
    \A key \in DOMAIN cache :
        ClassesIn(PrevMask(key)) # {}
            => cache[key][2] = MinOf(ClassesIn(PrevMask(key)))

\* the previous mover holds a winning pattern
Won(key) == ClassesIn(PrevMask(key)) # {}

\* C26: a node whose previous mover holds a winning pattern returns the score
\* of a win of that player (-1 if Player 1 is to move, +1 otherwise), a win
\* class and the ply of the node, also when the board is full; a node on a
\* full board returns (0, Draw, full) exactly when there is no such pattern.
C26_WinCheckedBeforeFill ==
    \A key \in DOMAIN cache :
        /\ Won(key) =>
               /\ cache[key][1] = (IF key[4] THEN -1 ELSE 1)
               /\ cache[key][2] \in ClassesIn(PrevMask(key))
               /\ cache[key][3] = Ply(key)
        /\ Ply(key) = NumCells =>
               ((OUTCOME_TABLE[cache[key][2] + 1] = "Draw" /\ cache[key][1] = 0
                    /\ cache[key][3] = NumCells) <=> ~Won(key))

\* the search has entered a full board won by the last marker and a full
\* board without a pattern
C26_Witness ==
    /\ \E key \in DOMAIN cache : Ply(key) = NumCells /\ Won(key)
    /\ \E key \in DOMAIN cache : Ply(key) = NumCells /\ ~Won(key)

\* the player to move at the node is blockaded: no pattern of the previous
\* mover, cells left, none of them playable
Blockaded(b, key) ==
    /\ ~Won(key)
    /\ Ply(key) < NumCells
    /\ LegalReplies(b, key[1] \cup key[2], key[3]) = {}

\* C27: a node below the full board whose previous mover holds no pattern and
\* whose player to move has no legal move returns the loss of the player to
\* move (-1 if Player 1 is to move, +1 otherwise), Blockade and its ply; no
\* other node returns Blockade with its own ply.
C27_BlockadeLosesForMover ==
    \A key \in DOMAIN cache :
        /\ Blockaded(board, key) =>
               /\ cache[key][1] = (IF key[4] THEN -1 ELSE 1)
               /\ OUTCOME_TABLE[cache[key][2] + 1] = "Blockade"
               /\ cache[key][3] = Ply(key)
        /\ (OUTCOME_TABLE[cache[key][2] + 1] = "Blockade" /\ cache[key][3] = Ply(key))
               => Blockaded(board, key)

\* the search has entered a blockade of either player
C27_Witness ==
    /\ \E key \in DOMAIN cache : Blockaded(board, key) /\ key[4]
    /\ \E key \in DOMAIN cache : Blockaded(board, key) /\ ~key[4]

\* the list is strictly ascending
Ascending(moves) == \A i, j \in DOMAIN moves : i < j => moves[i] < moves[j]

\* the elements of a list
Elements(moves) == {moves[i] : i \in DOMAIN moves}

\* the two generators agree on (b, taken, last) and list, in ascending order,
\* exactly the empty cells whose tile shares the plant or the poem of b[last]
SameLegalMoves(b, taken, last) ==
    LET moves == get_legal_moves(b, taken, <<last>>)
    IN  /\ moves = InlineMoves(b, taken, last)
        /\ Ascending(moves)
        /\ Elements(moves) =
               {i \in Cells \ taken : \/ b[i + 1][1] = b[last + 1][1]
                                      \/ b[i + 1][2] = b[last + 1][2]}

\* C28: with no previous move get_legal_moves lists exactly the non-interior
\* cells (the 12 opening cells of the 4x4 board), whatever the mask; with a
\* previous move it lists, in ascending order, exactly the empty cells whose
\* tile shares the plant or the poem of the last tile, and the generator
\* inlined in minimax gives the same list.  Checked at every node the search
\* stores and, when a solve begins, for every mask and every last cell.
C28_LegalMoves ==
    /\ \A key \in DOMAIN cache : SameLegalMoves(board, key[1] \cup key[2], key[3])
    /\ (pc = "phase1" /\ oi = 1) =>
           /\ \A taken \in SUBSET Cells :
                  /\ Elements(get_legal_moves(board, taken, <<>>)) = Cells \ InteriorCells
                  /\ Len(get_legal_moves(board, taken, <<>>)) = 4 * (Side - 1)
                  /\ Ascending(get_legal_moves(board, taken, <<>>))
                  /\ \A last \in Cells : SameLegalMoves(board, taken, last)

\* a solve has begun, and the search has stored a node with several legal
\* replies of which some empty cell is not one
C28_Witness ==
    \E key \in DOMAIN cache :
        /\ Len(get_legal_moves(board, key[1] \cup key[2], <<key[3]>>)) >= 2
        /\ Elements(get_legal_moves(board, key[1] \cup key[2], <<key[3]>>))
               # Cells \ (key[1] \cup key[2])

\* C29: at every node the search stores, in phase 1 and in phase 2, no cell
\* carries the markers of both players, the last move is a marker of the
\* previous mover, the players have alternated from Player 1 on (so the
\* markers are as many as the plies played, and the depth returned by a node
\* that ends the game is the number of marked cells), and no move the node
\* offers is an occupied cell.
C29_MasksDisjoint ==
    \A key \in DOMAIN cache :
        /\ key[1] \cap key[2] = {}
        /\ key[3] \in PrevMask(key)
        /\ Cardinality(key[1]) = Cardinality(key[2]) + (IF key[4] THEN 0 ELSE 1)
        /\ cache[key][3] >= Ply(key)
        /\ (Won(key) \/ Blockaded(board, key)) => cache[key][3] = Ply(key)
        /\ \A j \in DOMAIN InlineMoves(board, key[1] \cup key[2], key[3]) :
               InlineMoves(board, key[1] \cup key[2], key[3])[j] \notin key[1] \cup key[2]

\* phase 2 has stored a node from which moves remain, with markers of both
\* players on the board
C29_Witness ==
    /\ pc = "phase2"
    /\ \E key \in DOMAIN cache :
           /\ Cardinality(key[1]) >= 2
           /\ Cardinality(key[2]) >= 2
           /\ InlineMoves(board, key[1] \cup key[2], key[3]) # <<>>

WinMaskSet == {WIN_MASKS[k][1] : k \in DOMAIN WIN_MASKS}
MasksTagged(out_idx) == {WIN_MASKS[k][1] : k \in {j \in DOMAIN WIN_MASKS : WIN_MASKS[j][2] = out_idx}}

\* the patterns the rules name, by class
ListedRows == {{r * Side + c : c \in 0 .. (Side - 1)} : r \in 0 .. (Side - 1)}
ListedColumns == {{r * Side + c : r \in 0 .. (Side - 1)} : c \in 0 .. (Side - 1)}
ListedMainDiagonal == {k * (Side + 1) : k \in 0 .. (Side - 1)}
ListedAntiDiagonal == {(k + 1) * (Side - 1) : k \in 0 .. (Side - 1)}
ListedSquares ==
    {{r * Side + c, r * Side + c + 1, (r + 1) * Side + c, (r + 1) * Side + c + 1} :
        r \in 0 .. (Side - 2), c \in 0 .. (Side - 2)}

\* the number of patterns listed: 4 + 4 + 2 + 9 = 19 on the 4x4 board
ListedPatternCount == 2 * Side + 2 + (Side - 1) * (Side - 1)

\* the table is the listed patterns, each once and with the tag of its class,
\* and a mask wins exactly when it contains one of them
WinPatternsAsListed ==
    /\ MasksTagged(_OUT_ROW) = ListedRows
    /\ MasksTagged(_OUT_COL) = ListedColumns
    /\ MasksTagged(_OUT_MAIN_DIAG) = {ListedMainDiagonal}
    /\ MasksTagged(_OUT_ANTI_DIAG) = {ListedAntiDiagonal}
    /\ MasksTagged(_OUT_SQUARE) = ListedSquares
    /\ \A k \in DOMAIN WIN_MASKS : WIN_MASKS[k][2] \in 0 .. _OUT_SQUARE
    /\ Cardinality(WinMaskSet) = Len(WIN_MASKS)
    /\ Len(WIN_MASKS) = ListedPatternCount
    /\ \A k \in DOMAIN WIN_MASKS :
           Cardinality(WIN_MASKS[k][1]) = (IF WIN_MASKS[k][2] = _OUT_SQUARE THEN 4 ELSE Side)
    /\ \A mask \in SUBSET Cells :
           _check_win_outcome(mask) >= 0 <=>
               \E p \in ListedRows \cup ListedColumns \cup ListedSquares
                        \cup {ListedMainDiagonal, ListedAntiDiagonal} : p \subseteq mask

\* the number of masks of the claim is 26 on the 4x4 board, 7 more than the
\* rows, columns, diagonals and squares it lists
ClaimedPatternCount == ListedPatternCount + 7

\* C31: the win-pattern table holds exactly the claimed number of distinct
\* masks (26 on the 4x4 board): the rows tagged Row, the columns tagged
\* Column, the two diagonals and the 2x2 squares tagged Square, and no other
\* set of cells is a win: a stored node is won exactly when the mask of its
\* previous mover contains one of them.
C31_WinPatternTable ==
    /\ WinPatternsAsListed
    /\ \A key \in DOMAIN cache :
           Won(key) <=> \E p \in ListedRows \cup ListedColumns \cup ListedSquares
                                 \cup {ListedMainDiagonal, ListedAntiDiagonal} :
                             p \subseteq PrevMask(key)
    /\ Cardinality(WinMaskSet) = ClaimedPatternCount

\* C31 as amended: the win-pattern table holds exactly the listed patterns, each
\* once (19 masks of 4 cells on the 4x4 board): the rows tagged Row, the
\* columns tagged Column, the two diagonals and the 2x2 squares tagged Square,
\* and no other set of cells is a win.
C31_TableIsTheListedPatterns ==
    /\ WinPatternsAsListed
    /\ \A key \in DOMAIN cache :
           Won(key) <=> \E p \in ListedRows \cup ListedColumns \cup ListedSquares
                                 \cup {ListedMainDiagonal, ListedAntiDiagonal} :
                             p \subseteq PrevMask(key)

\* the search has stored a node won by a square and a node won by a line
C31_Witness ==
    /\ \E key \in DOMAIN cache : \E p \in ListedSquares : p \subseteq PrevMask(key)
    /\ \E key \in DOMAIN cache : \E p \in ListedRows \cup ListedColumns : p \subseteq PrevMask(key)
    /\ \E key \in DOMAIN cache : ~Won(key) /\ Ply(key) >= 5

(***************************************************************************)
(* One call of solve_board on a valid board, with each combination of its  *)
(* flags (solver.py 429-455).                                              *)
(***************************************************************************)
EntryRanks == {0, 1, 2, 307, 1804, 1843, 5760}

EntryStart ==
    /\ epc = "start"
    /\ eboard \in {get_permutation(TILES, r) : r \in EntryRanks}
    /\ eargs = None
    /\ eresult = None

EntryInit == SolveIdle /\ UtilIdle /\ MainIdle /\ DebugIdle /\ ProcIdle /\ EntryStart

\* the caller chooses the flags
EntryCall(debug, skip_canonical, skip) ==
    /\ epc = "start"
    /\ eargs' = [debug |-> debug, skip_canonical |-> skip_canonical, skip_p2 |-> skip]
    /\ epc' = "called"
    /\ UNCHANGED <<eboard, eresult>>
    /\ UNCHANGED <<solveVars, utilVars, mainVars, debugVars, procVars>>

\* solve_board runs and returns
EntryReturn ==
    /\ epc = "called"
    /\ \E result \in {solve_board(eboard, eargs.debug, eargs.skip_canonical, eargs.skip_p2)} :
           eresult' = result
    /\ epc' = "returned"
    /\ UNCHANGED <<eboard, eargs>>
    /\ UNCHANGED <<solveVars, utilVars, mainVars, debugVars, procVars>>

EntryNext ==
    \/ \E debug, skip_canonical, skip \in BOOLEAN : EntryCall(debug, skip_canonical, skip)
    \/ EntryReturn

EntrySpec == EntryInit /\ [][EntryNext]_vars

\* the fields of the Duplicate sentinel
IsDuplicateSentinel(result) ==
    /\ result.outcome = "Duplicate"
    /\ result.is_p1_win = None
    /\ result.is_draw = FALSE
    /\ result.best_move = -1
    /\ result.game_depth = 0
    /\ result.p1_wins_count = 0
    /\ result.p2_wins_count = 0
    /\ result.draws_count = 0
    /\ result.p2_responses = <<>>

\* C32: solve_board called without skip_canonical on a board that is not
\* canonical returns the Duplicate sentinel (no winner, no draw, best_move -1,
\* game_depth 0, all counts 0, no replies); called on a canonical board, or
\* with skip_canonical, it returns a result whose outcome is not Duplicate.
C32_DuplicateSentinel ==
    epc = "returned" =>
        IF ~eargs.skip_canonical /\ ~is_canonical(tuple(eboard))
        THEN IsDuplicateSentinel(eresult)
        ELSE /\ eresult.outcome # "Duplicate"
             /\ eresult.outcome \in {OUTCOME_TABLE[k] : k \in DOMAIN OUTCOME_TABLE}
             /\ eresult.best_move \in {OPENING_INDICES[k] : k \in DOMAIN OPENING_INDICES}

\* a board that is not canonical has been solved with skip_canonical set
C32_Witness ==
    /\ epc = "returned"
    /\ ~is_canonical(tuple(eboard))
    /\ eargs.skip_canonical
    /\ eresult.outcome # "Duplicate"

\* solve_board has returned the Duplicate sentinel
C32_WitnessDuplicate ==
    /\ epc = "returned"
    /\ eresult.outcome = "Duplicate"

\* solve_board has returned from a canonical board without skip_canonical
C32_WitnessCanonical ==
    /\ epc = "returned"
    /\ is_canonical(tuple(eboard))
    /\ ~eargs.skip_canonical

\* C33: on every valid board and with either value of skip_p2, the result of
\* a solve that was run is the SolveResult of the production path
\* (_solve_board_python, whose outcome indices are mapped through
\* OUTCOME_TABLE) and the SolveResult of the debug path (_solve_board_debug):
\* the two are equal in every field.
C33_DebugPathAgrees ==
    (epc = "returned" /\ eresult.outcome # "Duplicate") =>
        /\ eresult = _solve_board_python(eboard, eargs.skip_p2)
        /\ eresult = _solve_board_debug(eboard, eargs.skip_p2)

\* the debug path has returned a full result in which Player 2 wins some
\* opening and another opening is not won by Player 2
C33_Witness ==
    /\ epc = "returned"
    /\ eargs.debug
    /\ ~eargs.skip_p2
    /\ eresult.outcome # "Duplicate"
    /\ eresult.p2_wins_count > 0
    /\ eresult.p2_wins_count < Len(eresult.p2_responses)

(***************************************************************************)
(* The calls of minimax a solve can make, each with its depth argument:    *)
(* <<p1_mask, p2_mask, last_move_idx, is_p1_turn, depth>>.                 *)
(***************************************************************************)
\* the calls of the two drivers of the search: line 522 (depth 1) and line
\* 655 (depth 2)
RootCalls(b) ==
    {<<{m}, {}, m, FALSE, 1>> : m \in Elements(OPENING_INDICES)}
        \cup UNION {{<<{m}, {i}, i, TRUE, 2>> : i \in Elements(InlineMoves(b, {m}, m))} :
                        m \in Elements(OPENING_INDICES)}

\* the calls a call can make (lines 266-268 and 289-291), none when it
\* returns at lines 219-256
ChildCalls(b, n) ==
    IF \/ _check_win_outcome(IF n[4] THEN n[2] ELSE n[1]) >= 0
       \/ n[5] = NumCells
    THEN {}
    ELSE {IF n[4] THEN <<n[1] \cup {m}, n[2], m, FALSE, n[5] + 1>>
                  ELSE <<n[1], n[2] \cup {m}, m, TRUE, n[5] + 1>>
          : m \in Elements(InlineMoves(b, n[1] \cup n[2], n[3]))}

RECURSIVE CallsFrom(_, _, _)
CallsFrom(b, frontier, seen) ==
    IF frontier = {} THEN seen
    ELSE CallsFrom(b, (UNION {ChildCalls(b, n) : n \in frontier}) \ (seen \cup frontier),
                   seen \cup frontier)

\* the node ends the game where it stands
EndsAtNode(b, key) == Won(key) \/ Ply(key) = NumCells \/ Blockaded(b, key)

\* C34: the key of a node determines the rest of its state.  In every call
\* the search can make the depth is the number of marked cells, Player 1 is
\* to move exactly when the depth is even, and the last move is a marker of
\* the player who just moved; every stored node is such a call, so that two
\* visits of a key have the same depth, and the depth a node stores when the
\* game ends there is the number of its marked cells whichever visit stored
\* it (otherwise it is larger).
C34_KeyDeterminesNode ==
    /\ \A key \in DOMAIN cache :
           /\ key[4] <=> (Ply(key) % 2 = 0)
           /\ key[3] \in PrevMask(key)
           /\ IF EndsAtNode(board, key)
              THEN cache[key][3] = Ply(key)
              ELSE cache[key][3] \in (Ply(key) + 1) .. NumCells
    /\ pc = "return" =>
           \A calls \in {CallsFrom(board, RootCalls(board), {})} :
               /\ \A n \in calls :
                      /\ n[5] = Cardinality(n[1] \cup n[2])
                      /\ n[4] <=> (n[5] % 2 = 0)
                      /\ n[3] \in (IF n[4] THEN n[2] ELSE n[1])
               /\ \A key \in DOMAIN cache :
                      \E n \in calls : key = <<n[1], n[2], n[3], n[4]>>

\* a solve with phase 2 is about to return; the table holds a node that ends
\* the game below the full board and a node deep in the game that does not
C34_Witness ==
    /\ pc = "return"
    /\ ~skip_p2
    /\ \E key \in DOMAIN cache : Ply(key) = 2
    /\ \E key \in DOMAIN cache : Ply(key) < NumCells /\ EndsAtNode(board, key)
    /\ \E key \in DOMAIN cache : Ply(key) >= 5 /\ ~EndsAtNode(board, key)

\* a triple (score, outcome index, depth) is consistent: the score is 0
\* exactly when the outcome is Draw; a score of +1 comes with a win class or
\* Blockade and an odd depth (Player 1 placed the last marker), a score of -1
\* with a win class or Blockade and an even depth
ConsistentTriple(score, out_idx, depth) ==
    /\ (score = DRAW_SCORE) <=> (OUTCOME_TABLE[out_idx + 1] = "Draw")
    /\ score = P1_WINS =>
           /\ OUTCOME_TABLE[out_idx + 1] \in
                  {"Row", "Column", "Main Diagonal", "Anti-Diagonal", "Square", "Blockade"}
           /\ depth % 2 = 1
    /\ score = P1_LOSES =>
           /\ OUTCOME_TABLE[out_idx + 1] \in
                  {"Row", "Column", "Main Diagonal", "Anti-Diagonal", "Square", "Blockade"}
           /\ depth % 2 = 0

\* C35: every triple the search has stored, and the triple phase 1 keeps for
\* the root, is consistent in the sense above, whether it was stored by a
\* search that ran all its moves or by one that was cut off.
C35_TriplesConsistent ==
    /\ \A key \in DOMAIN cache :
           ConsistentTriple(cache[key][1], cache[key][2], cache[key][3])
    /\ pc \in {"phase1_done", "phase2", "return"} =>
           ConsistentTriple(best_score, best_out_idx, best_depth)

\* the table holds a win of each player found below the node that stores it,
\* and a draw
C35_Witness ==
    /\ \E key \in DOMAIN cache :
           cache[key][1] = P1_WINS /\ cache[key][3] > Ply(key) /\ key[4]
    /\ \E key \in DOMAIN cache :
           cache[key][1] = P1_LOSES /\ cache[key][3] > Ply(key) /\ ~key[4]
    /\ \E key \in DOMAIN cache : cache[key][1] = DRAW_SCORE

\* the replies open to Player 2 after the opening m: the other tiles of the
\* same plant and the other tiles of the same poem
SamePlant(b, m) == {i \in Cells \ {m} : b[i + 1][1] = b[m + 1][1]}
SamePoem(b, m) == {i \in Cells \ {m} : b[i + 1][2] = b[m + 1][2]}

\* a reply row of phase 2 names a legal reply and not the "no reply" default
RealReply(b, resp) ==
    /\ resp.p2_best_move # -1
    /\ resp.p2_best_move # resp.p1_move
    /\ resp.p2_best_move \in SamePlant(b, resp.p1_move) \cup SamePoem(b, resp.p1_move)

\* C36: on the board of a solve, after each opening Player 2 has exactly
\* 2 * (Side - 1) legal replies (6 on the 4x4 board): the other tiles of the
\* plant and the other tiles of the poem of the opening tile, all empty.  So
\* no reply row of phase 2 has p2_best_move = -1 or p2_best_move = p1_move,
\* and no best_p2_score is left at the sentinel +2 of "no reply".
C36_SixRepliesPerOpening ==
    /\ board # None =>
           \A k \in DOMAIN OPENING_INDICES :
               LET m == OPENING_INDICES[k]
               IN  /\ Len(get_legal_moves(board, {m}, <<m>>)) = 2 * (Side - 1)
                   /\ Elements(get_legal_moves(board, {m}, <<m>>))
                          = SamePlant(board, m) \cup SamePoem(board, m)
                   /\ Cardinality(SamePlant(board, m)) = Side - 1
                   /\ Cardinality(SamePoem(board, m)) = Side - 1
                   /\ SamePlant(board, m) \cap SamePoem(board, m) = {}
    /\ \A k \in DOMAIN p2_responses :
           /\ RealReply(board, p2_responses[k])
           /\ p2_scores[k] \in {P1_LOSES, DRAW_SCORE, P1_WINS}
           /\ (p2_scores[k] = DRAW_SCORE) <=> (p2_responses[k].outcome = "Draw")
    /\ \A f \in DOMAIN results :
           \A k \in DOMAIN results[f].p2_responses :
               RealReply(board, results[f].p2_responses[k])

\* phase 2 has finished with an opening that Player 1 wins and an opening
\* that is drawn, each with its reply
C36_Witness ==
    /\ pc = "return"
    /\ Len(p2_responses) = Len(OPENING_INDICES)
    /\ \E k \in DOMAIN p2_responses : p2_scores[k] = P1_WINS
    /\ \E k \in DOMAIN p2_responses : p2_scores[k] = DRAW_SCORE

\* the reply rows of a rank, and the ranks of a store
RepliesOf(store, rank) == {row \in store.p2_responses : row[1] = rank}
RanksOf(store) == SolutionsKeys(store.solutions) \cup {row[1] : row \in store.p2_responses}

\* C37: every rank of the store is self-consistent, whatever runs wrote it:
\* the rank has a solutions row; it has reply rows exactly when that row has
\* has_p2_data set, and then it has one reply row per opening, whose wins of
\* Player 1, draws and wins of Player 2 are the three counts of the row.
C37_StoreSelfConsistent ==
    \A rank \in RanksOf(db) :
        /\ rank \in SolutionsKeys(db.solutions)
        /\ \A row \in {r \in db.solutions : SolutionsKey(r) = rank} :
               /\ (RepliesOf(db, rank) # {}) <=> row[11]
               /\ row[11] =>
                      /\ Cardinality(RepliesOf(db, rank)) = Len(OPENING_INDICES)
                      /\ Cardinality({r \in RepliesOf(db, rank) : r[4]}) = row[8]
                      /\ Cardinality({r \in RepliesOf(db, rank) : r[5] = "Draw"}) = row[10]
                      /\ Cardinality({r \in RepliesOf(db, rank) : ~r[4] /\ r[5] # "Draw"})
                             = row[9]

\* the key of the position after the opening m
OpeningKey(m) == <<{m}, {}, m, FALSE>>

\* C38: the root loop of phase 1 is never cut off: alpha stays below beta
\* (+2), so when phase 1 ends every opening has been searched, also those
\* after an opening that wins, and from then on the table holds the position
\* after every opening.
C38_RootLoopNeverCuts ==
    /\ pc \in {"phase1", "phase1_done", "phase2", "return"} =>
           /\ alpha \in {_NEG_INF, P1_LOSES, DRAW_SCORE, P1_WINS}
           /\ alpha < _INF
    /\ pc = "phase1" =>
           \A k \in 1 .. (oi - 1) : OpeningKey(OPENING_INDICES[k]) \in DOMAIN cache
    /\ pc = "phase1_done" => oi = Len(OPENING_INDICES)
    /\ pc \in {"phase1_done", "phase2", "return"} =>
           \A k \in DOMAIN OPENING_INDICES : OpeningKey(OPENING_INDICES[k]) \in DOMAIN cache

\* phase 1 has ended on a board whose winning opening is not the last one
C38_Witness ==
    /\ pc = "phase1_done"
    /\ best_score = P1_WINS
    /\ best_move # OPENING_INDICES[Len(OPENING_INDICES)]
    /\ alpha = P1_WINS

====
